---- MODULE Spec2Model ----
(***************************************************************************)
(* A model of protextinator's TextState: the byte cursor arithmetic of     *)
(* byte_cursor.rs, the change tracking of text_params.rs and the action    *)
(* state machine, caret/scroll/selection recalculation of state.rs.        *)
(*                                                                         *)
(* A text is a sequence of UTF-8 bytes.  Four byte values are enough to    *)
(* exercise the code: "a" (an ASCII letter), "n" (the line feed), and the  *)
(* pair "E","c" (lead and continuation byte of one two-byte scalar).       *)
(* Byte offsets are 0-based as in the source; Slice(s, a, b) is s[a..b].   *)
(* Pixel quantities are integers (the shaping engine reports the caret     *)
(* position as integers); one glyph is GlyphW wide, one line LineH high.   *)
(* An Option is a sequence of length 0 (None) or 1 (Some).                 *)
(***************************************************************************)
EXTENDS Integers, Sequences, FiniteSets, TLC

\* ------------------------------------------------------------------ bounds
\* the longest stored text, in bytes
MaxLen == 3
\* the width of a glyph and the height of a line, in pixels
GlyphW == 4
LineH == 2
\* the size of the text area, in pixels
AreaW == 7
AreaH == 4
\* the number of buffer identifiers
MaxIds == 2
\* the longest removed_ids vector a caller hands to TextManager::end_frame
MaxRemoved == 3

\* ------------------------------------------------------- program constants
\* caret_width as new_with_text sets it
CaretWidth == 3
\* SIZE_EPSILON, 0.0001, in the unit the TextParams sizes are counted in
SIZE_EPSILON == 1

\* ----------------------------------------------------------------- basics
None == << >>
Some(x) == << x >>
IsSome(o) == o # << >>
Unwrap(o) == o[1]

Max(a, b) == IF a >= b THEN a ELSE b
Min(a, b) == IF a <= b THEN a ELSE b

Before == 0
After == 1

\* The scalar values of the model, as byte sequences.
Chars == { <<"a">>, <<"n">>, <<"E", "c">> }

\* All well-formed texts of at most n scalars.
RECURSIVE Texts(_)
Texts(n) ==
  IF n = 0 THEN { << >> }
  ELSE LET shorter == Texts(n - 1)
       IN shorter \cup { t \o c : t \in shorter, c \in Chars }

Slice(s, a, b) == SubSeq(s, a + 1, b)

\* str::is_char_boundary
IsCharBoundary(s, i) ==
  \/ i = 0
  \/ i = Len(s)
  \/ (i > 0 /\ i < Len(s) /\ s[i + 1] # "c")

\* len_utf8 of the scalar that starts at byte offset i of s
CharLenAt(s, i) == IF s[i + 1] = "E" THEN 2 ELSE 1

\* the byte offsets at which a scalar starts (str::char_indices)
CharStarts(s) == { i \in 0 .. Len(s) - 1 : s[i + 1] # "c" }

\* str::chars().count()
CharCount(s) == Cardinality(CharStarts(s))

\* the pieces of s between line feeds, all of them
RECURSIVE SplitNL(_)
SplitNL(s) ==
  IF \A i \in 1 .. Len(s) : s[i] # "n" THEN << s >>
  ELSE LET k == CHOOSE i \in 1 .. Len(s) :
                   s[i] = "n" /\ \A j \in 1 .. i - 1 : s[j] # "n"
       IN << SubSeq(s, 1, k - 1) >> \o SplitNL(SubSeq(s, k + 1, Len(s)))

\* str::lines(): a final empty piece is not a line
lines(s) ==
  LET p == SplitNL(s)
  IN IF p[Len(p)] = << >> THEN SubSeq(p, 1, Len(p) - 1) ELSE p

\* bytes of the lines before line k (1-based), one more per line for its feed
RECURSIVE cumulative(_, _)
cumulative(L, k) ==
  IF k <= 1 THEN 0 ELSE cumulative(L, k - 1) + Len(L[k - 1]) + 1

\* ------------------------------------------------------------ byte_cursor.rs
Cursor(l, i, a) == [line |-> l, index |-> i, affinity |-> a]

ByteCursor(c, b) == [cursor |-> c, byte_character_start |-> b]

string_start == ByteCursor(Cursor(0, 0, Before), 0)

\* char_byte_offset_to_cursor without its case for the offset at the end
char_byte_offset_to_cursor_lines(full_text, char_byte_offset) ==
  LET L == lines(full_text)
      hit == { k \in 1 .. Len(L) :
                 char_byte_offset < cumulative(L, k) + Len(L[k]) }
  IN IF hit = {} THEN None
     ELSE LET k == CHOOSE x \in hit : \A y \in hit : x <= y
          IN Some(Cursor(k - 1, Max(char_byte_offset - cumulative(L, k), 0),
                         Before))

char_byte_offset_to_cursor(full_text, char_byte_offset) ==
  LET L == lines(full_text)
  IN IF char_byte_offset = Len(full_text)
     THEN Some(Cursor(IF L = << >> THEN 0 ELSE Len(L) - 1,
                      IF L = << >> THEN 0 ELSE Len(L[Len(L)]),
                      Before))
     ELSE LET hit == { k \in 1 .. Len(L) :
                         char_byte_offset < cumulative(L, k) + Len(L[k]) }
          IN IF hit = {} THEN None
             ELSE LET k == CHOOSE x \in hit : \A y \in hit : x <= y
                  IN Some(Cursor(k - 1,
                                 Max(char_byte_offset - cumulative(L, k), 0),
                                 Before))

byte_offset_cursor_to_byte_offset(string, cursor) ==
  LET L == lines(string)
  IN IF cursor.line + 1 \in 1 .. Len(L)
     THEN IF cursor.index <= Len(L[cursor.line + 1])
          THEN Some(cumulative(L, cursor.line + 1) + cursor.index)
          ELSE None
     ELSE None

\* text[..current] panics when current is inside a scalar
previous_char_byte_offset_panics(text, current) ==
  current # 0 /\ current <= Len(text) /\ ~IsCharBoundary(text, current)

previous_char_byte_offset(text, current) ==
  IF current = 0 \/ current > Len(text) THEN None
  ELSE LET starts == { i \in CharStarts(text) : i < current }
       IN IF starts = {} THEN None
          ELSE Some(CHOOSE i \in starts : \A j \in starts : j <= i)

\* ByteCursor::update_cursor: the updated cursor, or the old one on failure
update_cursor(bc, cursor, string) ==
  IF cursor = bc.cursor THEN bc
  ELSE LET o == byte_offset_cursor_to_byte_offset(string, cursor)
       IN IF IsSome(o) THEN ByteCursor(cursor, Unwrap(o)) ELSE bc

update_cursor_ok(bc, cursor, string) ==
  cursor = bc.cursor \/ IsSome(byte_offset_cursor_to_byte_offset(string, cursor))

update_byte_offset(bc, byte_offset, string) ==
  IF bc.byte_character_start = byte_offset THEN bc
  ELSE LET c == char_byte_offset_to_cursor(string, byte_offset)
       IN IF IsSome(c) THEN ByteCursor(Unwrap(c), byte_offset) ELSE bc

update_byte_offset_ok(bc, byte_offset, string) ==
  bc.byte_character_start = byte_offset
    \/ IsSome(char_byte_offset_to_cursor(string, byte_offset))

from_cursor(cursor, string) ==
  IF update_cursor_ok(string_start, cursor, string)
  THEN Some(update_cursor(string_start, cursor, string))
  ELSE None

from_byte_offset(byte_offset, string) ==
  IF update_byte_offset_ok(string_start, byte_offset, string)
  THEN Some(update_byte_offset(string_start, byte_offset, string))
  ELSE None

\* the expect() of before_last_character fails
before_last_character_panics(string) ==
  /\ string # << >>
  /\ LET last == CHOOSE i \in CharStarts(string) :
                    \A j \in CharStarts(string) : j <= i
     IN ~IsSome(char_byte_offset_to_cursor(string, last))

before_last_character(string) ==
  IF string = << >> THEN string_start
  ELSE LET last == CHOOSE i \in CharStarts(string) :
                     \A j \in CharStarts(string) : j <= i
       IN ByteCursor(Unwrap(char_byte_offset_to_cursor(string, last)), last)

after_last_character(string) ==
  LET res == before_last_character(string)
  IN ByteCursor(Cursor(res.cursor.line, res.cursor.index, After), Len(string))

\* derived Ord of cosmic_text::Cursor: line, index, affinity
CursorLess(c, d) ==
  \/ c.line < d.line
  \/ c.line = d.line /\ c.index < d.index
  \/ c.line = d.line /\ c.index = d.index /\ c.affinity < d.affinity

\* derived Ord of ByteCursor: the engine cursor first, then the byte offset
ByteCursorLess(a, b) ==
  \/ CursorLess(a.cursor, b.cursor)
  \/ a.cursor = b.cursor /\ a.byte_character_start < b.byte_character_start

\* ByteCursor::prev_char_byte_offset
prev_char_byte_offset_panics(bc, string) ==
  previous_char_byte_offset_panics(string, bc.byte_character_start)

prev_char_byte_offset(bc, string) ==
  previous_char_byte_offset(string, bc.byte_character_start)

\* ByteCursor::next_char_byte_offset: string[byte_character_start..] panics
\* past the end and inside a scalar
next_char_byte_offset_panics(bc, string) ==
  \/ bc.byte_character_start > Len(string)
  \/ ~IsCharBoundary(string, bc.byte_character_start)

next_char_byte_offset(bc, string) ==
  IF bc.byte_character_start >= Len(string) THEN None
  ELSE Some(bc.byte_character_start + CharLenAt(string, bc.byte_character_start))

char_byte_offset_to_char_index(text, char_byte_offset) ==
  IF char_byte_offset > Len(text) THEN None
  ELSE IF char_byte_offset = Len(text) THEN Some(CharCount(text))
  ELSE IF char_byte_offset \in CharStarts(text)
  THEN Some(Cardinality({ i \in CharStarts(text) : i < char_byte_offset }))
  ELSE None

\* ByteCursor::char_index
char_index(bc, string) ==
  char_byte_offset_to_char_index(string, bc.byte_character_start)

\* ----------------------------------------------------------- text_params.rs
\* The operations below take and return the whole TextState as a record s;
\* a panic sets s.panicked and ends the handler.
Panic(s) == [s EXCEPT !.panicked = TRUE]

text_for_internal_use(s) == s.text

\* &self.text[..len.saturating_sub(1)] panics inside a scalar
original_text_panics(s) ==
  s.line_terminator_has_been_added
    /\ ~IsCharBoundary(s.text, Max(Len(s.text) - 1, 0))

original_text(s) ==
  IF s.line_terminator_has_been_added
  THEN Slice(s.text, 0, Max(Len(s.text) - 1, 0))
  ELSE s.text

\* TextParams::insert_char and TextParams::insert_str (String::insert[_str])
insert_str(s, index, str) ==
  IF s.panicked THEN s
  ELSE IF index <= Len(s.text)
  THEN IF ~IsCharBoundary(s.text, index) THEN Panic(s)
       ELSE [s EXCEPT !.text = Slice(@, 0, index) \o str \o Slice(@, index, Len(@)),
                      !.changed = TRUE]
  ELSE s

insert_char(s, index, c) == insert_str(s, index, c)

\* TextParams::remove_char (String::remove)
remove_char(s, index) ==
  IF s.panicked THEN s
  ELSE IF index < Len(s.text)
  THEN IF ~IsCharBoundary(s.text, index) THEN Panic(s)
       ELSE [s EXCEPT !.text = Slice(@, 0, index)
                                 \o Slice(@, index + CharLenAt(@, index), Len(@)),
                      !.changed = TRUE]
  ELSE s

\* TextParams::remove_range (String::drain)
remove_range(s, start, end) ==
  IF s.panicked THEN s
  ELSE IF start < end /\ end <= Len(s.text)
  THEN IF ~IsCharBoundary(s.text, start) \/ ~IsCharBoundary(s.text, end)
       THEN Panic(s)
       ELSE [s EXCEPT !.text = Slice(@, 0, start) \o Slice(@, end, Len(@)),
                      !.changed = TRUE]
  ELSE s

\* TextParams::set_text; the local the source calls ends_with_line_terminator
\* holds the negation of what its name says
params_set_text(s, t) ==
  IF s.panicked THEN s
  ELSE IF original_text_panics(s) THEN Panic(s)
  ELSE IF original_text(s) # t
  THEN LET is_one_line == \A i \in 1 .. Len(t) : t[i] # "n"
           ends_with_line_terminator == ~(t # << >> /\ t[Len(t)] = "n")
       IN IF ~is_one_line /\ ~ends_with_line_terminator
          THEN [s EXCEPT !.text = t \o <<"n">>,
                         !.line_terminator_has_been_added = TRUE,
                         !.changed = TRUE]
          ELSE [s EXCEPT !.text = t,
                         !.line_terminator_has_been_added = FALSE,
                         !.changed = TRUE]
  ELSE s

\* Point::approx_eq (math.rs); lengths are counted in units of 0.0001
approx_eq(a, b, epsilon) ==
  /\ (IF a.x >= b.x THEN a.x - b.x ELSE b.x - a.x) <= epsilon
  /\ (IF a.y >= b.y THEN a.y - b.y ELSE b.y - a.y) <= epsilon

set_size(s, size) ==
  IF s.panicked THEN s
  ELSE IF ~approx_eq(s.size, size, SIZE_EPSILON)
  THEN [s EXCEPT !.size = size, !.changed = TRUE]
  ELSE s

\* set_style once font_query_changed has been raised where it must
style_set(s, style) ==
  IF s.style # style THEN [s EXCEPT !.style = style, !.changed = TRUE] ELSE s

set_style(s, style) ==
  IF s.panicked THEN s
  ELSE IF s.style.font_family # style.font_family \/ s.style.weight # style.weight
  THEN style_set([s EXCEPT !.font_query_changed = TRUE], style)
  ELSE style_set(s, style)

set_metadata(s, metadata) ==
  IF s.panicked THEN s
  ELSE IF s.metadata # metadata
  THEN [s EXCEPT !.metadata = metadata, !.changed = TRUE]
  ELSE s

reset_changed(s) == IF s.panicked THEN s ELSE [s EXCEPT !.changed = FALSE]

\* TextParams::new
params_new(size, style, t, metadata) ==
  params_set_text([size |-> size,
                   style |-> style,
                   text |-> << >>,
                   metadata |-> metadata,
                   changed |-> TRUE,
                   font_query_changed |-> TRUE,
                   line_terminator_has_been_added |-> FALSE,
                   panicked |-> FALSE], t)

\* ------------------------------------------------------ the shaping engine
\* What the source relies on from cosmic_text, for unwrapped left-to-right
\* monospace text: the buffer keeps one line per piece between line feeds
\* (a final empty one after a trailing feed), every scalar is one glyph.
BufferLines(t) == SplitNL(t)

\* measured content size, as update_buffer accumulates it
MeasuredSize(L) ==
  LET widths == { CharCount(L[k]) * GlyphW : k \in 1 .. Len(L) }
  IN [x |-> CHOOSE w \in widths : \A v \in widths : v <= w,
      y |-> Len(L) * LineH]

\* number of glyphs of line ln that start before byte index i
GlyphsBefore(ln, i) == Cardinality({ j \in CharStarts(ln) : j < i })

\* byte index at which glyph number g (0-based) of line ln starts
GlyphStart(ln, g) ==
  CHOOSE i \in CharStarts(ln) : GlyphsBefore(ln, i) = g

MotionNext(L, c) ==
  IF c.line >= Len(L) THEN c
  ELSE LET ln == L[c.line + 1]
       IN IF c.index < Len(ln)
          THEN IF c.index \in CharStarts(ln)
               THEN [c EXCEPT !.index = @ + CharLenAt(ln, c.index)]
               ELSE c
          ELSE IF c.line + 1 < Len(L)
          THEN [c EXCEPT !.line = @ + 1, !.index = 0]
          ELSE c

MotionPrevious(L, c) ==
  IF c.line >= Len(L) THEN c
  ELSE LET ln == L[c.line + 1]
           prev == { i \in CharStarts(ln) : i < c.index }
       IN IF c.index > 0
          THEN [c EXCEPT !.index = IF prev = {} THEN 0
                                   ELSE CHOOSE i \in prev : \A j \in prev : j <= i]
          ELSE IF c.line > 0
          THEN [c EXCEPT !.line = @ - 1, !.index = Len(L[c.line])]
          ELSE c

\* Buffer::layout_cursor: the glyph column the cursor sits at
LayoutGlyph(ln, c) ==
  IF c.affinity = After /\ c.index \in CharStarts(ln)
  THEN GlyphsBefore(ln, c.index)
  ELSE IF c.affinity = Before /\ c.index > 0 /\ c.index <= Len(ln)
          /\ IsCharBoundary(ln, c.index)
  THEN GlyphsBefore(ln, c.index)
  ELSE 0

\* Motion::LayoutCursor on the only layout line of buffer line number line
MotionLayoutCursor(L, line, glyph) ==
  LET ln == L[line + 1]
  IN IF glyph < CharCount(ln) THEN Cursor(line, GlyphStart(ln, glyph), After)
     ELSE IF CharCount(ln) > 0 THEN Cursor(line, Len(ln), Before)
     ELSE Cursor(line, 0, After)

MotionUp(L, c) ==
  IF c.line >= Len(L) THEN c
  ELSE MotionLayoutCursor(L, IF c.line > 0 THEN c.line - 1 ELSE c.line,
                          LayoutGlyph(L[c.line + 1], c))

MotionDown(L, c) ==
  IF c.line >= Len(L) THEN c
  ELSE MotionLayoutCursor(L, IF c.line + 1 < Len(L) THEN c.line + 1 ELSE c.line,
                          LayoutGlyph(L[c.line + 1], c))

\* Editor::action(Action::Motion(m)) from cursor c
Motion(L, c, m) ==
  CASE m = "Next" -> MotionNext(L, c)
    [] m = "Right" -> MotionNext(L, c)
    [] m = "Previous" -> MotionPrevious(L, c)
    [] m = "Left" -> MotionPrevious(L, c)
    [] m = "Up" -> MotionUp(L, c)
    [] m = "Down" -> MotionDown(L, c)

\* Editor::cursor_position: the caret in buffer pixels, None off the layout
cursor_position(L, scroll, c) ==
  IF c.line < Len(L) /\ c.line >= scroll.line
       /\ (L[c.line + 1] = << >> \/ c.index <= Len(L[c.line + 1]))
  THEN Some([x |-> IF L[c.line + 1] = << >> THEN 0
                   ELSE GlyphsBefore(L[c.line + 1], c.index) * GlyphW,
             y |-> (c.line - scroll.line) * LineH - scroll.vertical])
  ELSE None

\* Buffer::shape_until_cursor on a cursor whose line the buffer has: the
\* scroll moves back to the cursor's line and sideways to its glyph
shape_until_cursor(L, scroll, c) ==
  LET ln == L[c.line + 1]
      g == LayoutGlyph(ln, c)
      x_min == IF ln = << >> THEN 0 ELSE Min(g, CharCount(ln) - 1) * GlyphW
      x_max == IF ln = << >> THEN 0 ELSE x_min + GlyphW
      back == IF scroll.line > c.line \/ (scroll.line = c.line /\ scroll.vertical > 0)
              THEN [scroll EXCEPT !.line = c.line, !.vertical = 0]
              ELSE scroll
      norm == IF back.line = 0 /\ back.vertical < 0
              THEN [back EXCEPT !.vertical = 0] ELSE back
      left == IF x_min < norm.horizontal
              THEN [norm EXCEPT !.horizontal = x_min] ELSE norm
  IN IF x_max > left.horizontal + AreaW
     THEN [left EXCEPT !.horizontal = x_max - AreaW] ELSE left

\* Buffer::hit: the cursors a pointer position can resolve to
HitCursors(L) ==
  UNION { { Cursor(l - 1, i, After) : i \in CharStarts(L[l]) }
            \cup { Cursor(l - 1, i + CharLenAt(L[l], i), Before) : i \in CharStarts(L[l]) }
            \cup (IF L[l] = << >> \/ l = 1 THEN { Cursor(l - 1, 0, Before) } ELSE {})
            \cup (IF l = Len(L) THEN { Cursor(l - 1, Len(L[l]), After) } ELSE {})
          : l \in 1 .. Len(L) }

\* LayoutRun::highlight of buffer line number line between two cursors
Highlight(L, line, start, end) ==
  LET ln == L[line + 1]
      in(c) == ~CursorLess(c, start) /\ ~CursorLess(end, c)
      xs == { GlyphsBefore(ln, i) * GlyphW :
                i \in { j \in CharStarts(ln) : in(Cursor(line, j, After)) } }
            \cup { (GlyphsBefore(ln, i) + 1) * GlyphW :
                i \in { j \in CharStarts(ln) :
                          in(Cursor(line, j + CharLenAt(ln, j), Before)) } }
  IN IF xs = {} THEN None
     ELSE LET lo == CHOOSE x \in xs : \A y \in xs : x <= y
              hi == CHOOSE x \in xs : \A y \in xs : y <= x
          IN Some([x |-> lo, width |-> hi - lo])

\* ------------------------------------------------------------------ state.rs
\* TextState::new_with_text, with the size the caller gives the text area
new_with_text(t, valign, selectable, editable, enabled) ==
  LET blank == [text |-> << >>,
                line_terminator_has_been_added |-> FALSE,
                changed |-> TRUE,
                cursor |-> string_start,
                relative_caret_position |-> None,
                selection_origin |-> None,
                selection_end |-> None,
                selection_lines |-> << >>,
                inner_dimensions |-> [x |-> 0, y |-> 0],
                buffer_lines |-> << << >> >>,
                scroll |-> [line |-> 0, vertical |-> 0, horizontal |-> 0],
                horizontal_alignment |-> "Start",
                vertical_alignment |-> valign,
                is_selectable |-> selectable,
                is_editable |-> editable,
                are_actions_enabled |-> enabled,
                result |-> "None",
                clipboard |-> << >>,
                panicked |-> FALSE]
  IN params_set_text(blank, t)

\* reshape_if_params_changed without its reset_changed
reshape_if_params_changed_dirty(s) ==
  IF s.panicked THEN s
  ELSE IF s.changed
  THEN [s EXCEPT !.buffer_lines = BufferLines(s.text),
                 !.inner_dimensions = MeasuredSize(BufferLines(s.text))]
  ELSE s

reshape_if_params_changed(s) ==
  IF s.panicked THEN s
  ELSE IF s.changed
  THEN [s EXCEPT !.buffer_lines = BufferLines(s.text),
                 !.inner_dimensions = MeasuredSize(BufferLines(s.text)),
                 !.changed = FALSE]
  ELSE s

is_cursor_updated(reason) ==
  reason \in {"MoveCaret", "InsertedText", "DeletedTextAtCursor"}

\* buffer_utils.rs adjust_vertical_scroll_to_make_caret_visible: the state
\* with the buffer scroll it leaves, and the caret position it returns.
\* The caret position once shape_until_cursor has moved the scroll to sc:
shaped_until_cursor(s, sc) ==
  [s |-> [s EXCEPT !.scroll = sc],
   pos |-> cursor_position(s.buffer_lines, sc, s.cursor.cursor)]

\* the scroll brought to a caret found at pos, or looked for by shaping
caret_made_visible(s, pos) ==
  IF IsSome(pos)
  THEN IF Unwrap(pos).y < 0
       THEN [s |-> [s EXCEPT !.scroll.vertical = @ + Unwrap(pos).y],
             pos |-> Some([x |-> Unwrap(pos).x, y |-> 0])]
       ELSE IF Unwrap(pos).y + LineH > AreaH
       THEN [s |-> [s EXCEPT !.scroll.vertical = @ + Unwrap(pos).y + LineH - AreaH],
             pos |-> Some([x |-> Unwrap(pos).x, y |-> AreaH - LineH])]
       ELSE [s |-> s, pos |-> pos]
  ELSE IF s.cursor.cursor.line >= Len(s.buffer_lines)
  THEN [s |-> Panic(s), pos |-> None]
  ELSE shaped_until_cursor(s, shape_until_cursor(s.buffer_lines, s.scroll,
                                                 s.cursor.cursor))

adjust_vertical_scroll_to_make_caret_visible(s) ==
  caret_made_visible(s, cursor_position(s.buffer_lines, s.scroll, s.cursor.cursor))

\* the same adjustment compensating a leftward caret shift whatever the reason
horizontal_scroll_adjusted_any_reason(s, update_reason, v) ==
  IF v.s.panicked \/ ~IsSome(v.pos) THEN v.s
  ELSE
    LET old_scroll == s.scroll
        old_relative_caret_x ==
          IF IsSome(s.relative_caret_position)
          THEN Unwrap(s.relative_caret_position).x ELSE 0
        old_absolute_caret_x == old_relative_caret_x + old_scroll.horizontal
        new_absolute_caret_offset == Unwrap(v.pos).x
        min == old_scroll.horizontal
        max == old_scroll.horizontal + AreaW
        text_shift == old_absolute_caret_x - new_absolute_caret_offset
        shifted == Max(old_scroll.horizontal - text_shift, 0)
        max_scroll == s.inner_dimensions.x - AreaW + CaretWidth
        horizontal ==
          IF new_absolute_caret_offset >= min /\ new_absolute_caret_offset <= max
          THEN IF text_shift > 0
               THEN IF s.inner_dimensions.x > AreaW
                    THEN Min(shifted, max_scroll)
                    ELSE 0
               ELSE v.s.scroll.horizontal
          ELSE IF new_absolute_caret_offset > max
          THEN new_absolute_caret_offset - AreaW + CaretWidth
          ELSE new_absolute_caret_offset
    IN [v.s EXCEPT !.scroll.horizontal = horizontal]

\* the same adjustment leaving the scroll alone while the caret is in the window
horizontal_scroll_adjusted_uncompensated(s, update_reason, v) ==
  IF v.s.panicked \/ ~IsSome(v.pos) THEN v.s
  ELSE
    LET old_scroll == s.scroll
        new_absolute_caret_offset == Unwrap(v.pos).x
        min == old_scroll.horizontal
        max == old_scroll.horizontal + AreaW
        horizontal ==
          IF new_absolute_caret_offset >= min /\ new_absolute_caret_offset <= max
          THEN v.s.scroll.horizontal
          ELSE IF new_absolute_caret_offset > max
          THEN new_absolute_caret_offset - AreaW + CaretWidth
          ELSE new_absolute_caret_offset
    IN [v.s EXCEPT !.scroll.horizontal = horizontal]

\* adjust_scroll_if_cursor_moved once the vertical adjustment has given v
horizontal_scroll_adjusted(s, update_reason, v) ==
  IF v.s.panicked \/ ~IsSome(v.pos) THEN v.s
  ELSE
    LET old_scroll == s.scroll
        old_relative_caret_x ==
          IF IsSome(s.relative_caret_position)
          THEN Unwrap(s.relative_caret_position).x ELSE 0
        old_absolute_caret_x == old_relative_caret_x + old_scroll.horizontal
        new_absolute_caret_offset == Unwrap(v.pos).x
        min == old_scroll.horizontal
        max == old_scroll.horizontal + AreaW
        text_shift == old_absolute_caret_x - new_absolute_caret_offset
        shifted == Max(old_scroll.horizontal - text_shift, 0)
        max_scroll == s.inner_dimensions.x - AreaW + CaretWidth
        horizontal ==
          IF new_absolute_caret_offset >= min /\ new_absolute_caret_offset <= max
          THEN IF update_reason # "MoveCaret" /\ text_shift > 0
               THEN IF s.inner_dimensions.x > AreaW
                    THEN Min(shifted, max_scroll)
                    ELSE 0
               ELSE v.s.scroll.horizontal
          ELSE IF new_absolute_caret_offset > max
          THEN new_absolute_caret_offset - AreaW + CaretWidth
          ELSE new_absolute_caret_offset
    IN [v.s EXCEPT !.scroll.horizontal = horizontal]

adjust_scroll_if_cursor_moved(s, update_reason) ==
  IF s.panicked \/ ~is_cursor_updated(update_reason) THEN s
  ELSE horizontal_scroll_adjusted(s, update_reason,
                                  adjust_vertical_scroll_to_make_caret_visible(s))

recalculate_selection_area(s) ==
  IF s.panicked \/ ~s.is_selectable THEN s
  ELSE IF ~IsSome(s.selection_origin) \/ ~IsSome(s.selection_end) THEN s
  ELSE
    LET o == Unwrap(s.selection_origin)
        e == Unwrap(s.selection_end)
        start_cursor == IF ByteCursorLess(e, o) THEN e ELSE o
        end_cursor == IF ByteCursorLess(e, o) THEN o ELSE e
        L == s.buffer_lines
        run(l) ==
          LET h == Highlight(L, l, start_cursor.cursor, end_cursor.cursor)
              top == (l - s.scroll.line) * LineH - s.scroll.vertical
          IN IF IsSome(h)
             THEN << [start_x_pt |-> Unwrap(h).x - s.scroll.horizontal,
                      end_x_pt |-> Unwrap(h).x + Unwrap(h).width - s.scroll.horizontal,
                      start_y_pt |-> top,
                      end_y_pt |-> top + LineH] >>
             ELSE << >>
        runs[l \in s.scroll.line .. Len(L)] ==
          IF l >= Len(L) THEN << >> ELSE run(l) \o runs[l + 1]
    IN [s EXCEPT !.selection_lines =
                   IF s.scroll.line >= Len(L) THEN << >> ELSE runs[s.scroll.line]]

calculate_caret_position(s) ==
  LET pos == cursor_position(s.buffer_lines, s.scroll, s.cursor.cursor)
  IN IF IsSome(pos)
     THEN Some([x |-> Unwrap(pos).x - s.scroll.horizontal, y |-> Unwrap(pos).y])
     ELSE None

\* buffer_utils.rs vertical_offset over the rectangle (0, 0)..(AreaW, AreaH)
vertical_offset(vertical_alignment, buffer_height) ==
  CASE vertical_alignment = "Start" -> 0
    [] vertical_alignment = "End" -> AreaH - buffer_height
    [] vertical_alignment = "Center" -> (AreaH - buffer_height) \div 2
    [] vertical_alignment = "None" -> 0

calculate_vertical_offset(s) ==
  0 - vertical_offset(s.vertical_alignment, s.inner_dimensions.y)

align_vertically(s) ==
  IF s.panicked \/ s.vertical_alignment = "None" THEN s
  ELSE [s EXCEPT !.scroll.vertical = calculate_vertical_offset(s)]

\* recalculate_with_update_reason: relative_caret_position is assigned
caret_position_recalculated(s) ==
  IF s.panicked THEN s
  ELSE [s EXCEPT !.relative_caret_position = calculate_caret_position(s)]

recalculate_with_update_reason(s, update_reason) ==
  align_vertically(
    caret_position_recalculated(
      recalculate_selection_area(
        adjust_scroll_if_cursor_moved(reshape_if_params_changed(s), update_reason))))

\* the ActionResult a handler returns when it has not panicked
Returns(s, res) == IF s.panicked THEN s ELSE [s EXCEPT !.result = res]

\* TextState::text
text_of(s) == original_text(s)

is_text_selected(s) ==
  IsSome(s.selection_origin) /\ IsSome(s.selection_end)
    /\ s.selection_origin # s.selection_end

reset_selection_end(s) ==
  IF s.panicked THEN s
  ELSE [s EXCEPT !.selection_end = None, !.selection_lines = << >>]

reset_selection(s) ==
  IF s.panicked THEN s
  ELSE [s EXCEPT !.selection_origin = None, !.selection_end = None,
                 !.selection_lines = << >>]

\* move_cursor once the caret has been offered the engine's cursor
cursor_moved(s, updated) ==
  [s EXCEPT !.cursor = updated,
            !.result = IF updated.cursor = s.cursor.cursor
                       THEN "None" ELSE "CursorUpdated"]

\* TextState::move_cursor; the result it returns is in s.result
move_cursor(s, motion) ==
  IF s.panicked THEN s
  ELSE cursor_moved(s, update_cursor(s.cursor,
                                     Motion(s.buffer_lines, s.cursor.cursor, motion),
                                     text_for_internal_use(s)))

insert_char_at_cursor(s, character) ==
  Returns(move_cursor(reshape_if_params_changed(
                        insert_char(s, s.cursor.byte_character_start, character)),
                      "Next"),
          "TextChanged")

\* remove_char_at_cursor once the character at prev has been removed
caret_moved_back(s, prev) ==
  IF s.panicked THEN s
  ELSE [s EXCEPT !.cursor = update_byte_offset(@, prev, text_for_internal_use(s))]

\* remove_char_at_cursor with the offset previous_char_byte_offset gave
char_removed_before(s, prev) ==
  IF IsSome(prev) THEN caret_moved_back(remove_char(s, Unwrap(prev)), Unwrap(prev))
  ELSE s

remove_char_at_cursor(s) ==
  IF s.panicked \/ text_for_internal_use(s) = << >> THEN s
  ELSE IF previous_char_byte_offset_panics(text_for_internal_use(s),
                                           s.cursor.byte_character_start)
  THEN Panic(s)
  ELSE char_removed_before(s, previous_char_byte_offset(text_for_internal_use(s),
                                                        s.cursor.byte_character_start))

\* the caret put at c unless the removal panicked
caret_put(s, c) == IF s.panicked THEN s ELSE [s EXCEPT !.cursor = c]

\* remove_selected_text on the two endpoints of the selection
range_removed(s, origin, end) ==
  IF ByteCursorLess(end, origin)
  THEN caret_put(remove_range(s, end.byte_character_start,
                              origin.byte_character_start), end)
  ELSE caret_put(remove_range(s, origin.byte_character_start,
                              end.byte_character_start), origin)

remove_selected_text(s) ==
  IF s.panicked THEN s
  ELSE IF IsSome(s.selection_origin) /\ IsSome(s.selection_end)
  THEN reset_selection(range_removed(s, Unwrap(s.selection_origin),
                                     Unwrap(s.selection_end)))
  ELSE s

select_all_panics(s) ==
  original_text_panics(s)
    \/ (original_text(s) # << >> /\ before_last_character_panics(original_text(s)))

select_all(s) ==
  IF s.panicked THEN s
  ELSE IF select_all_panics(s) THEN Panic(s)
  ELSE [s EXCEPT !.selection_origin = Some(string_start),
                 !.selection_end =
                   IF original_text(s) # << >>
                   THEN Some(after_last_character(original_text(s)))
                   ELSE None]

\* the two ends of the slice selected_text takes, in the order it takes them
selected_range(s) ==
  LET origin == Unwrap(s.selection_origin)
      end == Unwrap(s.selection_end)
  IN IF ByteCursorLess(end, origin)
     THEN << end.byte_character_start, origin.byte_character_start >>
     ELSE << origin.byte_character_start, end.byte_character_start >>

\* &original_text()[start..end] panics
slice_panics(t, start, end) ==
  \/ start > end
  \/ end > Len(t)
  \/ ~IsCharBoundary(t, start)
  \/ ~IsCharBoundary(t, end)

substring_byte_offset_panics(s, range) ==
  original_text_panics(s) \/ slice_panics(original_text(s), range[1], range[2])

substring_byte_offset(s, range) == Slice(original_text(s), range[1], range[2])

selected_text_panics(s) ==
  IsSome(s.selection_origin) /\ IsSome(s.selection_end)
    /\ substring_byte_offset_panics(s, selected_range(s))

selected_text(s) ==
  IF IsSome(s.selection_origin) /\ IsSome(s.selection_end)
  THEN Some(substring_byte_offset(s, selected_range(s)))
  ELSE None

\* selected_text().unwrap_or("")
selected_text_or_empty(sel) == IF IsSome(sel) THEN Unwrap(sel) ELSE << >>

\* InsertToClipboard(sel) returned unless the handler panicked
ReturnsClipboard(s, sel) ==
  IF s.panicked THEN s
  ELSE [s EXCEPT !.result = "InsertToClipboard", !.clipboard = sel]

copy_selected_text(s) ==
  IF s.panicked THEN s
  ELSE IF selected_text_panics(s) THEN Panic(s)
  ELSE ReturnsClipboard(s, selected_text_or_empty(selected_text(s)))

\* paste_text_at_cursor that puts the caret behind the inserted text
pasted_at_cursor_moved(s, str) ==
  Returns(recalculate_with_update_reason(
            LET x == insert_str(s, s.cursor.byte_character_start, str)
            IN caret_put(x, update_byte_offset(
                              s.cursor, s.cursor.byte_character_start + Len(str),
                              text_for_internal_use(x))),
            "InsertedText"),
          "TextChanged")

\* paste_text_at_cursor after its reset of the selection end
pasted_at_cursor(s, str) ==
  Returns(recalculate_with_update_reason(
            insert_str(s, s.cursor.byte_character_start, str), "InsertedText"),
          "TextChanged")

paste_text_at_cursor(s, str) ==
  pasted_at_cursor(IF str # << >> THEN reset_selection_end(s) ELSE s, str)

select_all_recalculate(s) ==
  Returns(recalculate_with_update_reason(select_all(s), "SelectionChanged"),
          "CursorUpdated")

cut_selected_text(s) ==
  IF selected_text_panics(s) THEN Panic(s)
  ELSE ReturnsClipboard(
         recalculate_with_update_reason(remove_selected_text(s), "DeletedTextAtCursor"),
         selected_text_or_empty(selected_text(s)))

delete_selected_text_or_text_before_cursor(s) ==
  Returns(recalculate_with_update_reason(
            IF is_text_selected(s) THEN remove_selected_text(s)
            ELSE remove_char_at_cursor(s),
            "DeletedTextAtCursor"),
          "TextChanged")

\* move_cursor_to_selection_right and move_cursor_to_selection_left
move_cursor_to_selection_right(s) ==
  [s EXCEPT !.cursor =
     IF ByteCursorLess(Unwrap(s.selection_origin), Unwrap(s.selection_end))
     THEN Unwrap(s.selection_end) ELSE Unwrap(s.selection_origin)]

move_cursor_to_selection_left(s) ==
  [s EXCEPT !.cursor =
     IF ByteCursorLess(Unwrap(s.selection_end), Unwrap(s.selection_origin))
     THEN Unwrap(s.selection_end) ELSE Unwrap(s.selection_origin)]

move_cursor_right_recalculate(s) ==
  Returns(recalculate_with_update_reason(
            reset_selection(IF is_text_selected(s)
                            THEN move_cursor_to_selection_right(s)
                            ELSE move_cursor(s, "Right")),
            "MoveCaret"),
          "CursorUpdated")

move_cursor_left_recalculate(s) ==
  Returns(recalculate_with_update_reason(
            reset_selection(IF is_text_selected(s)
                            THEN move_cursor_to_selection_left(s)
                            ELSE move_cursor(s, "Left")),
            "MoveCaret"),
          "CursorUpdated")

\* the result is the one move_cursor returned
move_cursor_recalculate(s, motion) ==
  recalculate_with_update_reason(reset_selection(move_cursor(s, motion)), "MoveCaret")

\* the loop of insert_character over the scalars of the fragment
RECURSIVE insert_each(_, _)
insert_each(s, fragment) ==
  IF s.panicked \/ fragment = << >> THEN s
  ELSE insert_each(
         reset_selection_end(
           insert_char_at_cursor(s, Slice(fragment, 0, CharLenAt(fragment, 0)))),
         Slice(fragment, CharLenAt(fragment, 0), Len(fragment)))

insert_character(s, character) ==
  Returns(recalculate_with_update_reason(
            insert_each(IF is_text_selected(s)
                        THEN remove_selected_text(move_cursor(s, "Left"))
                        ELSE s,
                        character),
            "InsertedText"),
          "TextChanged")

Action(kind, payload) == [kind |-> kind, text |-> payload]

EditActions ==
  {"Paste", "Cut", "DeleteBackward", "MoveCursorRight", "MoveCursorLeft",
   "MoveCursorUp", "MoveCursorDown", "InsertChar"}

ActionKinds ==
  EditActions \cup {"CopySelectedText", "SelectAll", "InsertWhitespace"}

\* what a handler that has returned nothing yet leaves as its return value
NoResult(s) == [s EXCEPT !.result = "None", !.clipboard = << >>]

\* apply_action: what the editable branch returns
editable_branch(s, action) ==
  IF s.is_editable
  THEN CASE action.kind = "Paste" -> paste_text_at_cursor(s, action.text)
         [] action.kind = "Cut" -> cut_selected_text(s)
         [] action.kind = "DeleteBackward" ->
              delete_selected_text_or_text_before_cursor(s)
         [] action.kind = "MoveCursorRight" -> move_cursor_right_recalculate(s)
         [] action.kind = "MoveCursorLeft" -> move_cursor_left_recalculate(s)
         [] action.kind = "MoveCursorUp" -> move_cursor_recalculate(s, "Up")
         [] action.kind = "MoveCursorDown" -> move_cursor_recalculate(s, "Down")
         [] action.kind = "InsertChar" -> insert_character(s, action.text)
         [] OTHER -> [s EXCEPT !.result = "None"]
  ELSE [s EXCEPT !.result = "None"]

\* apply_action: the actions tried when the editable branch returned None
fallback_branch(res, action) ==
  IF res.panicked THEN res
  ELSE IF res.result = "None"
  THEN CASE action.kind = "CopySelectedText" -> copy_selected_text(res)
         [] action.kind = "SelectAll" -> select_all_recalculate(res)
         [] OTHER -> [res EXCEPT !.result = "None"]
  ELSE res

\* apply_action without its first test
apply_action_enabled(s0, action) ==
  LET s == NoResult(s0) IN
  IF s.is_selectable
  THEN fallback_branch(editable_branch(s, action), action)
  ELSE [s EXCEPT !.result = "None"]

\* apply_action without its test of is_selectable
apply_action_selectable(s0, action) ==
  LET s == NoResult(s0) IN
  IF ~s.are_actions_enabled THEN [s EXCEPT !.result = "ActionsDisabled"]
  ELSE fallback_branch(editable_branch(s, action), action)

apply_action(s0, action) ==
  LET s == NoResult(s0) IN
  IF ~s.are_actions_enabled THEN [s EXCEPT !.result = "ActionsDisabled"]
  ELSE IF s.is_selectable
  THEN fallback_branch(editable_branch(s, action), action)
  ELSE [s EXCEPT !.result = "None"]

\* TextState::set_text
set_text(s, t) ==
  LET s1 == params_set_text(s, t)
  IN IF s1.panicked THEN s1
     ELSE IF s1.cursor.byte_character_start > Len(text_for_internal_use(s1))
     THEN [s1 EXCEPT !.cursor =
             update_byte_offset(@, Len(text_for_internal_use(s1)),
                                text_for_internal_use(s1))]
     ELSE s1

\* TextState::set_style with a style that differs from the current one in its
\* alignments at most (TextParams::set_style, no font query change)
state_set_style(s, horizontal_alignment, vertical_alignment) ==
  IF s.panicked THEN s
  ELSE IF << s.horizontal_alignment, s.vertical_alignment >>
            # << horizontal_alignment, vertical_alignment >>
  THEN [s EXCEPT !.horizontal_alignment = horizontal_alignment,
                 !.vertical_alignment = vertical_alignment,
                 !.changed = TRUE]
  ELSE s

\* TextState::absolute_scroll: every buffer line is one layout line
absolute_scroll(s) ==
  [x |-> s.scroll.horizontal,
   y |-> s.scroll.vertical + Min(s.scroll.line, Len(s.buffer_lines)) * LineH]

\* set_absolute_scroll: the line its loop stops at for the offset y
scrolled_line(s, y) ==
  LET stops == { i \in 0 .. Len(s.buffer_lines) - 1 : (i + 1) * LineH > y }
  IN IF stops = {} THEN Len(s.buffer_lines)
     ELSE CHOOSE i \in stops : \A j \in stops : i <= j

\* set_absolute_scroll without its test of the vertical alignment
set_absolute_scroll_any(s, point) ==
  IF s.panicked THEN s
  ELSE [s EXCEPT !.scroll =
          [line |-> scrolled_line(s, point.y),
           vertical |-> point.y - scrolled_line(s, point.y) * LineH,
           horizontal |-> point.x]]

set_absolute_scroll(s, point) ==
  IF s.panicked THEN s
  ELSE LET can_scroll_vertically == s.vertical_alignment = "None"
       IN IF can_scroll_vertically
          THEN [s EXCEPT !.scroll =
                  [line |-> scrolled_line(s, point.y),
                   vertical |-> point.y - scrolled_line(s, point.y) * LineH,
                   horizontal |-> point.x]]
          ELSE [s EXCEPT !.scroll.horizontal = point.x]

\* handle_press once the caret has been offered the cursor under the pointer
pressed_at_caret(s) ==
  recalculate_with_update_reason(
    [s EXCEPT !.selection_origin = Some(s.cursor), !.selection_end = None],
    "MoveCaret")

\* handle_press after its reset of the selection
pressed(s, hit) ==
  IF ~IsSome(hit) THEN s
  ELSE pressed_at_caret(
         [s EXCEPT !.cursor = update_cursor(@, Unwrap(hit), text_for_internal_use(s))])

\* TextState::handle_press; hit is what char_under_position returns
handle_press(s, hit) ==
  IF s.is_selectable \/ s.is_editable THEN pressed(reset_selection(s), hit)
  ELSE s

\* handle_drag: the selection end follows the pointer if there is an origin
drag_selection_end(s, hit) ==
  IF IsSome(s.selection_origin)
  THEN [s EXCEPT !.selection_end = from_cursor(Unwrap(hit), text_for_internal_use(s))]
  ELSE s

\* handle_drag: the caret follows the pointer once scroll_interval has passed
drag_caret(s, hit, elapsed, x) ==
  LET is_dragging_to_the_right == x > 0
      is_dragging_to_the_left == x < AreaW
  IN IF elapsed /\ (is_dragging_to_the_right \/ is_dragging_to_the_left)
     THEN [s EXCEPT !.cursor = update_cursor(@, Unwrap(hit), text_for_internal_use(s))]
     ELSE s

\* TextState::handle_drag; elapsed says whether now is later than
\* last_scroll_timestamp + scroll_interval, x is the pointer's x
handle_drag(s, is_dragging, hit, elapsed, x) ==
  IF ~is_dragging THEN s
  ELSE IF s.is_selectable
  THEN IF ~IsSome(hit) THEN s
       ELSE recalculate_with_update_reason(
              drag_caret(drag_selection_end(s, hit), hit, elapsed, x), "MoveCaret")
  ELSE s

\* ----------------------------------------------------------- buffer_cache.rs
\* The operations take and return the BufferCache as a record c; fetched is
\* the Option an accessor returns.  A Buffer is known by its shaped content.
Ids == 1 .. MaxIds
Buffers == {"b1", "b2"}

BufferCache(cache, accessed) ==
  [buffer_cache |-> cache, buffers_accessed_last_frame |-> accessed,
   fetched |-> None]

\* BufferCache::new
new == BufferCache(<< >>, {})

\* HashMap::get
get(cache, id) == IF id \in DOMAIN cache THEN Some(cache[id]) ELSE None

\* HashMap::insert
inserted(cache, id, b) ==
  [k \in DOMAIN cache \cup {id} |-> IF k = id THEN b ELSE cache[k]]

\* HashMap::retain / HashMap::remove: the entries whose key is in keep
retained(cache, keep) == [k \in DOMAIN cache \cap keep |-> cache[k]]

start_frame(c) == [c EXCEPT !.buffers_accessed_last_frame = {}, !.fetched = None]

end_frame(c) ==
  [c EXCEPT !.buffer_cache = retained(@, c.buffers_accessed_last_frame),
            !.fetched = None]

\* BufferCache::buffer without its insert into the accessed set
buffer_unmarked(c, id) == [c EXCEPT !.fetched = get(c.buffer_cache, id)]

\* BufferCache::buffer, the retaining accessor
buffer(c, id) ==
  [c EXCEPT !.buffers_accessed_last_frame = @ \cup {id},
            !.fetched = get(c.buffer_cache, id)]

buffer_no_retain(c, id) == [c EXCEPT !.fetched = get(c.buffer_cache, id)]

buffer_no_retain_mut(c, id) == [c EXCEPT !.fetched = get(c.buffer_cache, id)]

buffer_mut(c, id) == [c EXCEPT !.fetched = get(c.buffer_cache, id)]

retain_buffer(c, id) ==
  [c EXCEPT !.buffers_accessed_last_frame = @ \cup {id}, !.fetched = None]

insert_buffer(c, id, b) ==
  [c EXCEPT !.buffer_cache = inserted(@, id, b),
            !.buffers_accessed_last_frame = @ \cup {id},
            !.fetched = None]

remove_buffer(c, id) ==
  [c EXCEPT !.buffer_cache = retained(@, DOMAIN @ \ {id}), !.fetched = None]

\* create_or_update_and_shape_text_buffer: an entry that exists is updated in
\* place through buffer_mut, a missing one is created through insert_buffer
create_or_update_and_shape_text_buffer(c, id, b) ==
  IF IsSome(buffer_mut(c, id).fetched)
  THEN [c EXCEPT !.buffer_cache = inserted(@, id, b), !.fetched = None]
  ELSE insert_buffer(c, id, b)

shape_buffer_if_needed(c, id, reshape, b) ==
  IF ~IsSome(buffer_no_retain(c, id).fetched) \/ reshape
  THEN create_or_update_and_shape_text_buffer(c, id, b)
  ELSE [c EXCEPT !.fetched = None]

\* ---------------------------------------------------------- text_manager.rs
\* The operations take and return the TextManager as a record m of its
\* text_states and of the accessed_states of its usage tracker.  A TextState
\* in the map is known by its text.
TextManager(states, accessed) ==
  [text_states |-> states, accessed_states |-> accessed]

\* TextManager::new
manager_new == TextManager(<< >>, {})

\* TextManager::create_state
create_state(m, id, t) ==
  [m EXCEPT !.text_states = inserted(@, id, new_with_text(t, "Start", FALSE, FALSE, FALSE).text)]

\* TextManager::start_frame
manager_start_frame(m) == [m EXCEPT !.accessed_states = {}]

\* TextUsageTracker::mark_accessed
mark_accessed(m, id) == [m EXCEPT !.accessed_states = @ \cup {id}]

\* text_states.get_mut(&id) followed by set_text and recalculate on the state
\* found: the map is a public field and the lookup goes past the usage tracker
state_used(m, id, t) ==
  IF id \in DOMAIN m.text_states
  THEN [m EXCEPT !.text_states[id] = set_text(new_with_text(@, "Start", FALSE, FALSE, FALSE), t).text]
  ELSE m

\* the ids of order that the closure of end_frame pushes, in the order the
\* HashMap hands them to it
RECURSIVE pushed(_, _)
pushed(order, accessed) ==
  IF order = << >> THEN << >>
  ELSE (IF Head(order) \in accessed THEN << >> ELSE << Head(order) >>)
         \o pushed(Tail(order), accessed)

\* TextManager::end_frame that evicts without reporting the ids
manager_end_frame_silent(m, removed_ids, order) ==
  [m |-> [m EXCEPT !.text_states = retained(@, m.accessed_states)],
   removed_ids |-> removed_ids]

\* TextManager::end_frame; order is the order in which HashMap::retain visits
\* the ids of text_states
manager_end_frame(m, removed_ids, order) ==
  [m |-> [m EXCEPT !.text_states = retained(@, m.accessed_states)],
   removed_ids |-> removed_ids \o pushed(order, m.accessed_states)]

\* ---------------------------------------------------------- the state machine
VARIABLES
  text,                            \* TextParams.text
  line_terminator_has_been_added,  \* TextParams.line_terminator_has_been_added
  changed,                         \* TextParams.changed
  cursor,                          \* TextState.cursor, the caret
  relative_caret_position,         \* TextState.relative_caret_position
  selection_origin,                \* Selection.origin_character_byte_cursor
  selection_end,                   \* Selection.ends_before_character_byte_cursor
  selection_lines,                 \* Selection.lines
  inner_dimensions,                \* TextState.inner_dimensions
  buffer_lines,                    \* the text lines of TextState.buffer
  scroll,                          \* the scroll of TextState.buffer
  horizontal_alignment,            \* TextStyle.horizontal_alignment
  vertical_alignment,              \* TextStyle.vertical_alignment
  is_selectable,
  is_editable,
  are_actions_enabled,
  result,                          \* the ActionResult variant the last call returned
  clipboard,                       \* the payload of that InsertToClipboard
  panicked,                        \* a handler has panicked
  last,                            \* the handler called last
  buffer_cache,                    \* BufferCache.buffer_cache
  buffers_accessed_last_frame,     \* BufferCache.buffers_accessed_last_frame
  fetched,                         \* what the last BufferCache accessor returned
  cache_last,                      \* the BufferCache operation called last
  marked,                          \* the ids marked since the last start_frame
  cached_before,                   \* the ids cached before the last operation
  string,                          \* the &str the ByteCursor functions are given
  this,                            \* the ByteCursor the methods are called on
  returned,                        \* what the last ByteCursor function returned
  cursor_last,                     \* the ByteCursor function called last
  cursor_panicked,                 \* a ByteCursor function has panicked
  params,                          \* the TextParams the mutators are called on
  params_last,                     \* the TextParams mutator called last
  text_states,                     \* TextManager.text_states
  accessed_states,                 \* TextUsageTracker.accessed_states
  removed_ids,                     \* the vector the caller hands to end_frame
  manager_last,                    \* the TextManager operation called last
  manager_marked,                  \* the ids marked since the last start_frame
  manager_used,                    \* the ids looked up since the last start_frame
  manager_started,                 \* start_frame has been called
  states_before,                   \* text_states before the last operation
  removed_before                   \* removed_ids before the last operation

vars ==
  << text, line_terminator_has_been_added, changed, cursor,
     relative_caret_position, selection_origin, selection_end, selection_lines,
     inner_dimensions, buffer_lines, scroll, horizontal_alignment,
     vertical_alignment, is_selectable,
     is_editable, are_actions_enabled, result, clipboard, panicked, last,
     buffer_cache, buffers_accessed_last_frame, fetched, cache_last, marked,
     cached_before, string, this, returned, cursor_last, cursor_panicked,
     params, params_last, text_states, accessed_states, removed_ids,
     manager_last, manager_marked, manager_used, manager_started,
     states_before, removed_before >>

manager_vars ==
  << text_states, accessed_states, removed_ids, manager_last, manager_marked,
     manager_used, manager_started, states_before, removed_before >>

cursor_vars == << string, this, returned, cursor_last, cursor_panicked >>

params_vars == << params, params_last >>

cache_vars ==
  << buffer_cache, buffers_accessed_last_frame, fetched, cache_last, marked,
     cached_before >>

state_vars ==
  << text, line_terminator_has_been_added, changed, cursor,
     relative_caret_position, selection_origin, selection_end, selection_lines,
     inner_dimensions, buffer_lines, scroll, horizontal_alignment,
     vertical_alignment, is_selectable,
     is_editable, are_actions_enabled, result, clipboard, panicked, last >>

\* the BufferCache as the record the operations work on
Cache ==
  [buffer_cache |-> buffer_cache,
   buffers_accessed_last_frame |-> buffers_accessed_last_frame,
   fetched |-> fetched]

\* the ByteCursor ByteCursor::string_start builds, nothing called on it yet
NewCursor ==
  /\ this = string_start
  /\ returned = None
  /\ cursor_last = "string_start"
  /\ cursor_panicked = FALSE

\* the sizes, styles and metadata a caller passes to TextParams
Sizes == { [x |-> x, y |-> 0] : x \in 0 .. 2 * SIZE_EPSILON }

Styles ==
  [font_family : {"SansSerif", "Monospace"},
   weight : {"Normal", "Bold"},
   font_color : {"White", "Black"}]

Metadata == {0, 1}

\* the TextParams of an empty text, no mutator called on it yet
NewParams ==
  /\ params = params_new([x |-> 0, y |-> 0],
                         [font_family |-> "SansSerif", weight |-> "Normal",
                          font_color |-> "White"], << >>, 0)
  /\ params_last = "new"

\* the manager TextManager::new builds, and an empty vector for end_frame
NewManager ==
  /\ text_states = manager_new.text_states
  /\ accessed_states = manager_new.accessed_states
  /\ removed_ids = << >>
  /\ manager_last = "new"
  /\ manager_marked = {}
  /\ manager_used = {}
  /\ manager_started = FALSE
  /\ states_before = << >>
  /\ removed_before = << >>

\* the TextManager as the record the operations work on
Manager == TextManager(text_states, accessed_states)

\* the cache BufferCache::new builds
NewCache ==
  /\ buffer_cache = new.buffer_cache
  /\ buffers_accessed_last_frame = new.buffers_accessed_last_frame
  /\ fetched = new.fetched
  /\ cache_last = "new"
  /\ marked = {}
  /\ cached_before = {}

\* the TextState as the record the operations work on
Self ==
  [text |-> text,
   line_terminator_has_been_added |-> line_terminator_has_been_added,
   changed |-> changed,
   cursor |-> cursor,
   relative_caret_position |-> relative_caret_position,
   selection_origin |-> selection_origin,
   selection_end |-> selection_end,
   selection_lines |-> selection_lines,
   inner_dimensions |-> inner_dimensions,
   buffer_lines |-> buffer_lines,
   scroll |-> scroll,
   horizontal_alignment |-> horizontal_alignment,
   vertical_alignment |-> vertical_alignment,
   is_selectable |-> is_selectable,
   is_editable |-> is_editable,
   are_actions_enabled |-> are_actions_enabled,
   result |-> result,
   clipboard |-> clipboard,
   panicked |-> panicked]

Commit(s) ==
  /\ text' = s.text
  /\ line_terminator_has_been_added' = s.line_terminator_has_been_added
  /\ changed' = s.changed
  /\ cursor' = s.cursor
  /\ relative_caret_position' = s.relative_caret_position
  /\ selection_origin' = s.selection_origin
  /\ selection_end' = s.selection_end
  /\ selection_lines' = s.selection_lines
  /\ inner_dimensions' = s.inner_dimensions
  /\ buffer_lines' = s.buffer_lines
  /\ scroll' = s.scroll
  /\ horizontal_alignment' = s.horizontal_alignment
  /\ vertical_alignment' = s.vertical_alignment
  /\ is_selectable' = s.is_selectable
  /\ is_editable' = s.is_editable
  /\ are_actions_enabled' = s.are_actions_enabled
  /\ result' = s.result
  /\ clipboard' = s.clipboard
  /\ panicked' = s.panicked

VerticalAlignments == {"Start"}

\* the vertical alignments of style.rs
AllVerticalAlignments == {"None", "Start", "Center", "End"}

\* the texts a caller passes in
Fragments == Texts(2) \ { << >> }
Pastes == Texts(2)

\* the texts a state is built with or set to: their stored form fits MaxLen
Fits(t) == Len(new_with_text(t, "Start", FALSE, FALSE, FALSE).text) <= MaxLen
InitialTexts == { t \in Texts(MaxLen) : Fits(t) }

\* the settings of is_selectable, is_editable, are_actions_enabled
Flags == BOOLEAN \X BOOLEAN \X BOOLEAN
AllOn == { << TRUE, TRUE, TRUE >> }

\* the state TextState::new_with_text builds, once the caller has written
\* the public flags fl
BuiltAligned(texts, flags, valigns) ==
  \E t \in texts, valign \in valigns, fl \in flags :
    LET s == new_with_text(t, valign, fl[1], fl[2], fl[3])
    IN /\ text = s.text
       /\ line_terminator_has_been_added = s.line_terminator_has_been_added
       /\ changed = s.changed
       /\ cursor = s.cursor
       /\ relative_caret_position = s.relative_caret_position
       /\ selection_origin = s.selection_origin
       /\ selection_end = s.selection_end
       /\ selection_lines = s.selection_lines
       /\ inner_dimensions = s.inner_dimensions
       /\ buffer_lines = s.buffer_lines
       /\ scroll = s.scroll
       /\ horizontal_alignment = s.horizontal_alignment
       /\ vertical_alignment = s.vertical_alignment
       /\ is_selectable = s.is_selectable
       /\ is_editable = s.is_editable
       /\ are_actions_enabled = s.are_actions_enabled
       /\ result = s.result
       /\ clipboard = s.clipboard
       /\ panicked = s.panicked
       /\ last = "new_with_text"

\* the same under the default vertical alignment
BuiltState(texts, flags) == BuiltAligned(texts, flags, VerticalAlignments)

\* a new TextState next to a new BufferCache and a ByteCursor at the start of
\* the empty string
BuiltFor(texts, flags, valigns) ==
  /\ BuiltAligned(texts, flags, valigns)
  /\ NewCache
  /\ string = << >>
  /\ NewCursor
  /\ NewParams
  /\ NewManager

BuiltWith(texts, flags) == BuiltFor(texts, flags, VerticalAlignments)

Built(flags) == BuiltWith(InitialTexts, flags)

Init == Built({ << FALSE, FALSE, FALSE >> })

Step(s, call) ==
  /\ ~panicked
  /\ Commit(s)
  /\ last' = call
  /\ UNCHANGED cache_vars
  /\ UNCHANGED cursor_vars
  /\ UNCHANGED params_vars
  /\ UNCHANGED manager_vars

\* the caller writes the public flags
SetFlags ==
  \E fl \in Flags :
    /\ fl # << is_selectable, is_editable, are_actions_enabled >>
    /\ Step(NoResult([Self EXCEPT !.is_selectable = fl[1],
                                  !.is_editable = fl[2],
                                  !.are_actions_enabled = fl[3]]),
            "set_flags")

SetText ==
  \E t \in InitialTexts :
    Step(NoResult(set_text(Self, t)), "set_text")

Recalculate ==
  Step(NoResult(recalculate_with_update_reason(Self, "Unknown")), "recalculate")

\* apply_action with an action that carries no text
PlainKinds == ActionKinds \ {"Paste", "InsertChar"}

ApplyPlain ==
  \E kind \in PlainKinds :
    Step(apply_action(Self, Action(kind, << >>)), "apply_action")

ApplyDelete ==
  Step(apply_action(Self, Action("DeleteBackward", << >>)), "apply_action")

ApplyCut ==
  Step(apply_action(Self, Action("Cut", << >>)), "apply_action")

ApplyPaste ==
  \E p \in Pastes :
    /\ Len(text) + Len(p) <= MaxLen
    /\ Step(apply_action(Self, Action("Paste", p)), "apply_action")

ApplyInsertChar ==
  \E f \in Fragments :
    /\ Len(text) + Len(f) <= MaxLen
    /\ Step(apply_action(Self, Action("InsertChar", f)), "apply_action")

\* what the hit test of a pointer position can give on the shaped buffer
Hits == { None } \cup { Some(c) : c \in HitCursors(buffer_lines) }

HandlePress ==
  \E hit \in Hits :
    Step(NoResult(handle_press(Self, hit)), "handle_press")

\* the pointer's x left of the text area, inside it and right of it
DragXs == {0 - 1, GlyphW, AreaW + 1}

HandleDrag ==
  \E hit \in Hits, is_dragging, elapsed \in BOOLEAN, x \in DragXs :
    /\ is_dragging \/ (hit = None /\ ~elapsed /\ x = 0)
    /\ Step(NoResult(handle_drag(Self, is_dragging, hit, elapsed, x)), "handle_drag")

\* the horizontal alignments that lay left-to-right text out from the left
\* edge, as the shaping engine above does
HorizontalAlignments == {"None", "Start", "Left"}

SetStyle ==
  \E h \in HorizontalAlignments, v \in AllVerticalAlignments :
    Step(NoResult(state_set_style(Self, h, v)), "set_style")

\* the scroll positions a caller passes
ScrollPoints ==
  { [x |-> 0, y |-> 0], [x |-> GlyphW, y |-> LineH + 1], [x |-> 0 - 1, y |-> 1] }

SetAbsoluteScroll ==
  \E point \in ScrollPoints :
    Step(NoResult(set_absolute_scroll(Self, point)), "set_absolute_scroll")

\* one call of a BufferCache operation; mark is what the call adds to the
\* ids marked since the last start_frame
CacheStep(c, call, mark) ==
  /\ buffer_cache' = c.buffer_cache
  /\ buffers_accessed_last_frame' = c.buffers_accessed_last_frame
  /\ fetched' = c.fetched
  /\ cache_last' = call
  /\ marked' = marked \cup mark
  /\ cached_before' = DOMAIN buffer_cache
  /\ UNCHANGED state_vars
  /\ UNCHANGED cursor_vars
  /\ UNCHANGED params_vars
  /\ UNCHANGED manager_vars

StartFrame ==
  /\ buffer_cache' = start_frame(Cache).buffer_cache
  /\ buffers_accessed_last_frame' = start_frame(Cache).buffers_accessed_last_frame
  /\ fetched' = start_frame(Cache).fetched
  /\ cache_last' = "start_frame"
  /\ marked' = {}
  /\ cached_before' = DOMAIN buffer_cache
  /\ UNCHANGED state_vars
  /\ UNCHANGED cursor_vars
  /\ UNCHANGED params_vars
  /\ UNCHANGED manager_vars

EndFrame == CacheStep(end_frame(Cache), "end_frame", {})

GetBuffer == \E id \in Ids : CacheStep(buffer(Cache, id), "buffer", {id})

GetBufferNoRetain ==
  \E id \in Ids : CacheStep(buffer_no_retain(Cache, id), "buffer_no_retain", {})

GetBufferNoRetainMut ==
  \E id \in Ids :
    CacheStep(buffer_no_retain_mut(Cache, id), "buffer_no_retain_mut", {})

GetBufferMut == \E id \in Ids : CacheStep(buffer_mut(Cache, id), "buffer_mut", {})

RetainBuffer ==
  \E id \in Ids : CacheStep(retain_buffer(Cache, id), "retain_buffer", {id})

InsertBuffer ==
  \E id \in Ids, b \in Buffers :
    CacheStep(insert_buffer(Cache, id, b), "insert_buffer", {id})

RemoveBuffer ==
  \E id \in Ids : CacheStep(remove_buffer(Cache, id), "remove_buffer", {})

\* shape_buffer_if_needed marks the id only where it goes through
\* insert_buffer, that is where the id was not cached
ShapeBufferIfNeeded ==
  \E id \in Ids, reshape \in BOOLEAN, b \in Buffers :
    CacheStep(shape_buffer_if_needed(Cache, id, reshape, b),
              "shape_buffer_if_needed",
              IF id \in DOMAIN buffer_cache THEN {} ELSE {id})

NextCache ==
  \/ StartFrame
  \/ EndFrame
  \/ GetBuffer
  \/ GetBufferNoRetain
  \/ GetBufferNoRetainMut
  \/ GetBufferMut
  \/ RetainBuffer
  \/ InsertBuffer
  \/ RemoveBuffer
  \/ ShapeBufferIfNeeded

Next ==
  \/ NextCache
  \/ SetFlags
  \/ SetText
  \/ Recalculate
  \/ ApplyPlain
  \/ ApplyPaste
  \/ ApplyInsertChar
  \/ HandlePress
  \/ HandleDrag

Spec == Init /\ [][Next]_vars

\* the keyboard alone on an editable text
NextKeys ==
  \/ ApplyPlain
  \/ ApplyPaste
  \/ ApplyInsertChar

SpecKeys == Built(AllOn) /\ [][NextKeys]_vars

\* the four editing actions alone on an editable text
NextEdit ==
  \/ ApplyInsertChar
  \/ ApplyDelete
  \/ ApplyPaste
  \/ ApplyCut

SpecEdit == Built(AllOn) /\ [][NextEdit]_vars

\* keyboard and pointer on a text whose flags are not all set
NextGate ==
  \/ ApplyPlain
  \/ ApplyPaste
  \/ ApplyInsertChar
  \/ HandlePress
  \/ HandleDrag

SpecGate == Built(Flags \ AllOn) /\ [][NextGate]_vars

\* pointer selection and the editing actions on an editable text
NextSelect ==
  \/ HandlePress
  \/ HandleDrag
  \/ ApplyInsertChar
  \/ ApplyDelete
  \/ ApplyCut

SpecSelect == Built(AllOn) /\ [][NextSelect]_vars

\* set_text between the keyboard's actions on an editable text
NextSetText ==
  \/ SetText
  \/ ApplyPlain
  \/ ApplyInsertChar

SpecSetText == Built(AllOn) /\ [][NextSetText]_vars

\* recalculate between set_text, insertions and deletions, under every
\* vertical alignment
NextRecalc ==
  \/ Recalculate
  \/ SetText
  \/ ApplyInsertChar
  \/ ApplyDelete

SpecRecalc ==
  BuiltFor(InitialTexts, AllOn, AllVerticalAlignments) /\ [][NextRecalc]_vars

\* set_absolute_scroll between set_style and recalculate
NextScroll ==
  \/ SetAbsoluteScroll
  \/ SetStyle
  \/ Recalculate

SpecScroll ==
  BuiltFor(InitialTexts, AllOn, AllVerticalAlignments) /\ [][NextScroll]_vars

\* the keyboard next to a caller that sets the scroll
NextCaret ==
  \/ ApplyPlain
  \/ ApplyInsertChar
  \/ SetAbsoluteScroll

SpecCaret == Built(AllOn) /\ [][NextCaret]_vars

\* the texts a caller gives to the states of a TextManager
ManagedTexts == { << >>, << "a" >> }

\* the orders in which a HashMap can hand the ids of states to retain
IterationOrders(states) ==
  { order \in UNION { [1 .. n -> DOMAIN states] : n \in 0 .. MaxIds } :
      /\ Len(order) = Cardinality(DOMAIN states)
      /\ \A i, j \in 1 .. Len(order) : i # j => order[i] # order[j] }

\* one call of a TextManager operation that leaves the manager m and the
\* vector removed
ManagerStep(m, removed, call) ==
  /\ text_states' = m.text_states
  /\ accessed_states' = m.accessed_states
  /\ removed_ids' = removed
  /\ manager_last' = call
  /\ states_before' = text_states
  /\ removed_before' = removed_ids
  /\ UNCHANGED state_vars
  /\ UNCHANGED cache_vars
  /\ UNCHANGED cursor_vars
  /\ UNCHANGED params_vars

CreateState ==
  \E id \in Ids, t \in ManagedTexts :
    /\ ManagerStep(create_state(Manager, id, t), removed_ids, "create_state")
    /\ UNCHANGED << manager_marked, manager_used, manager_started >>

ManagerStartFrame ==
  /\ ManagerStep(manager_start_frame(Manager), removed_ids, "start_frame")
  /\ manager_marked' = {}
  /\ manager_used' = {}
  /\ manager_started' = TRUE

MarkAccessed ==
  \E id \in Ids :
    /\ ManagerStep(mark_accessed(Manager, id), removed_ids, "mark_accessed")
    /\ manager_marked' = manager_marked \cup {id}
    /\ UNCHANGED << manager_used, manager_started >>

UseState ==
  \E id \in DOMAIN text_states, t \in ManagedTexts :
    /\ ManagerStep(state_used(Manager, id, t), removed_ids, "get_mut")
    /\ manager_used' = manager_used \cup {id}
    /\ UNCHANGED << manager_marked, manager_started >>

\* the caller empties its vector
ClearRemoved ==
  /\ removed_ids # << >>
  /\ ManagerStep(Manager, << >>, "clear")
  /\ UNCHANGED << manager_marked, manager_used, manager_started >>

ManagerEndFrame ==
  \E order \in IterationOrders(text_states) :
    LET r == manager_end_frame(Manager, removed_ids, order)
    IN /\ Len(r.removed_ids) <= MaxRemoved
       /\ ManagerStep(r.m, r.removed_ids, "end_frame")
       /\ UNCHANGED << manager_marked, manager_used, manager_started >>

NextManager ==
  \/ CreateState
  \/ ManagerStartFrame
  \/ MarkAccessed
  \/ UseState
  \/ ClearRemoved
  \/ ManagerEndFrame

\* the text manager next to a text state nobody touches
SpecManager ==
  BuiltWith({ << >> }, { << FALSE, FALSE, FALSE >> }) /\ [][NextManager]_vars

\* the buffer cache next to a text state nobody touches
SpecCache ==
  BuiltWith({ << >> }, { << FALSE, FALSE, FALSE >> }) /\ [][NextCache]_vars

\* the &str arguments of the ByteCursor functions
Strings == { s \in Texts(MaxLen) : Len(s) <= MaxLen }

\* the byte offsets a caller can pass: those of the string and one past its end
Offsets == 0 .. MaxLen + 1

\* the engine cursors a caller can pass
Cursors ==
  { Cursor(l, i, a) : l \in 0 .. MaxLen, i \in 0 .. MaxLen + 1, a \in {Before, After} }

\* one call of a ByteCursor function that leaves the cursor bc and returns ret
CursorStep(bc, ret, panics, call) ==
  /\ ~cursor_panicked
  /\ this' = IF panics THEN this ELSE bc
  /\ returned' = IF panics THEN None ELSE ret
  /\ cursor_panicked' = panics
  /\ cursor_last' = call
  /\ UNCHANGED string
  /\ UNCHANGED state_vars
  /\ UNCHANGED cache_vars
  /\ UNCHANGED params_vars
  /\ UNCHANGED manager_vars

\* a constructor that returns Option<ByteCursor>: the new cursor is kept
Constructed(made, call) ==
  CursorStep(IF IsSome(made) THEN Unwrap(made) ELSE this, made, FALSE, call)

StringStart == CursorStep(string_start, Some(string_start), FALSE, "string_start")

AfterLastCharacter ==
  CursorStep(after_last_character(string), Some(after_last_character(string)),
             before_last_character_panics(string), "after_last_character")

FromByteOffset ==
  \E o \in Offsets : Constructed(from_byte_offset(o, string), "from_byte_offset")

FromCursor ==
  \E c \in Cursors : Constructed(from_cursor(c, string), "from_cursor")

UpdateByteOffset ==
  \E o \in Offsets :
    CursorStep(update_byte_offset(this, o, string),
               Some(update_byte_offset_ok(this, o, string)), FALSE,
               "update_byte_offset")

UpdateCursor ==
  \E c \in Cursors :
    CursorStep(update_cursor(this, c, string),
               Some(update_cursor_ok(this, c, string)), FALSE, "update_cursor")

PrevCharByteOffset ==
  CursorStep(this, prev_char_byte_offset(this, string),
             prev_char_byte_offset_panics(this, string), "prev_char_byte_offset")

NextCharByteOffset ==
  CursorStep(this, next_char_byte_offset(this, string),
             next_char_byte_offset_panics(this, string), "next_char_byte_offset")

CharIndex == CursorStep(this, char_index(this, string), FALSE, "char_index")

NextCursor ==
  \/ StringStart
  \/ AfterLastCharacter
  \/ FromByteOffset
  \/ FromCursor
  \/ UpdateByteOffset
  \/ UpdateCursor
  \/ PrevCharByteOffset
  \/ NextCharByteOffset
  \/ CharIndex

\* a ByteCursor at the start of any string, next to a new TextState and cache
InitCursor ==
  /\ BuiltState({ << >> }, { << FALSE, FALSE, FALSE >> })
  /\ NewCache
  /\ string \in Strings
  /\ NewCursor
  /\ NewParams
  /\ NewManager

\* the ByteCursor functions on one string
SpecCursor == InitCursor /\ [][NextCursor]_vars

\* the TextParams TextParams::new builds
Constructions ==
  { params_new(size, style, t, metadata) :
      size \in Sizes, style \in Styles, t \in InitialTexts, metadata \in Metadata }

\* the byte indices a caller passes to the TextParams mutators
Indices == 0 .. MaxLen + 1

\* the strings a caller passes to insert_str, and the chars to insert_char
Insertions == Texts(2)

Scalars == { c \in Texts(2) : CharCount(c) = 1 /\ IsCharBoundary(c, Len(c)) }

\* one call of a TextParams mutator that leaves the TextParams p
ParamsStep(p, call) ==
  /\ ~params.panicked
  /\ Len(p.text) <= MaxLen
  /\ params' = p
  /\ params_last' = call
  /\ UNCHANGED state_vars
  /\ UNCHANGED cache_vars
  /\ UNCHANGED cursor_vars
  /\ UNCHANGED manager_vars

ParamsSetText == \E t \in InitialTexts : ParamsStep(params_set_text(params, t), "set_text")

ParamsInsertChar ==
  \E i \in Indices, c \in Scalars : ParamsStep(insert_char(params, i, c), "insert_char")

ParamsInsertStr ==
  \E i \in Indices, str \in Insertions :
    ParamsStep(insert_str(params, i, str), "insert_str")

ParamsRemoveChar == \E i \in Indices : ParamsStep(remove_char(params, i), "remove_char")

ParamsRemoveRange ==
  \E start, end \in Indices :
    ParamsStep(remove_range(params, start, end), "remove_range")

ParamsSetSize == \E size \in Sizes : ParamsStep(set_size(params, size), "set_size")

ParamsSetStyle == \E style \in Styles : ParamsStep(set_style(params, style), "set_style")

ParamsSetMetadata ==
  \E metadata \in Metadata : ParamsStep(set_metadata(params, metadata), "set_metadata")

ParamsResetChanged == ParamsStep(reset_changed(params), "reset_changed")

NextParams ==
  \/ ParamsSetText
  \/ ParamsInsertChar
  \/ ParamsInsertStr
  \/ ParamsRemoveChar
  \/ ParamsRemoveRange
  \/ ParamsSetSize
  \/ ParamsSetStyle
  \/ ParamsSetMetadata
  \/ ParamsResetChanged

\* a TextParams as TextParams::new builds it, next to a new TextState, cache
\* and cursor
InitParams ==
  /\ BuiltState({ << >> }, { << FALSE, FALSE, FALSE >> })
  /\ NewCache
  /\ string = << >>
  /\ NewCursor
  /\ params \in Constructions
  /\ params_last = "new"
  /\ NewManager

\* the TextParams mutators on one TextParams
SpecParams == InitParams /\ [][NextParams]_vars

\* ------------------------------------------------------------ the properties
\* every action a caller can pass
Actions ==
  { Action(k, << >>) : k \in PlainKinds }
    \cup { Action("Paste", p) : p \in Pastes }
    \cup { Action("InsertChar", f) : f \in Fragments }

\* r has the text, caret, selection and scroll of s
SameTextCaretSelectionScroll(r, s) ==
  /\ r.text = s.text
  /\ r.line_terminator_has_been_added = s.line_terminator_has_been_added
  /\ r.cursor = s.cursor
  /\ r.selection_origin = s.selection_origin
  /\ r.selection_end = s.selection_end
  /\ r.selection_lines = s.selection_lines
  /\ r.scroll = s.scroll

\* r differs from s in nothing but the value returned
NoStateChange(r, s) ==
  r = [s EXCEPT !.result = r.result, !.clipboard = r.clipboard]

\* the text between the selection endpoints of s in byte order, empty when
\* an endpoint is unset
TextBetweenEndpoints(s) ==
  IF IsSome(s.selection_origin) /\ IsSome(s.selection_end)
  THEN LET a == Unwrap(s.selection_origin).byte_character_start
           b == Unwrap(s.selection_end).byte_character_start
       IN Slice(text_of(s), Min(a, b), Max(a, b))
  ELSE << >>

\* what C1 says of the state r that apply_action leaves from s
C1_Post(r, s) ==
  /\ ~r.panicked
  /\ r.result = "ActionsDisabled"
  /\ SameTextCaretSelectionScroll(r, s)

\* C1: while are_actions_enabled is false, apply_action returns
\* ActionsDisabled for every action and leaves text, caret, selection and
\* scroll as they were, whatever is_selectable and is_editable are
C1_ActionsDisabled ==
  (~panicked /\ ~are_actions_enabled) =>
    \A a \in Actions : C1_Post(apply_action(Self, a), Self)

C1_Witness ==
  /\ last = "apply_action"
  /\ result = "ActionsDisabled"
  /\ ~are_actions_enabled /\ is_selectable /\ is_editable
  /\ is_text_selected(Self)
  /\ ~panicked

\* what C2 says of the state r that apply_action leaves from s
C2_Post(r, s) ==
  /\ ~r.panicked
  /\ r.result = "None"
  /\ NoStateChange(r, s)

\* C2: while are_actions_enabled is true and is_selectable is false,
\* apply_action returns None for every action, SelectAll and
\* CopySelectedText included, also when is_editable is true, and changes
\* no state
C2_NotSelectable ==
  (~panicked /\ are_actions_enabled /\ ~is_selectable) =>
    \A a \in Actions : C2_Post(apply_action(Self, a), Self)

C2_Witness ==
  /\ last = "apply_action"
  /\ result = "None"
  /\ are_actions_enabled /\ ~is_selectable /\ is_editable
  /\ cursor.byte_character_start > 0
  /\ ~panicked

\* what C3 says of the state r that apply_action leaves from s on action a
C3_Post(r, s, a) ==
  /\ ~r.panicked
  /\ a.kind \in EditActions =>
       /\ r.result = "None"
       /\ r.text = s.text
       /\ r.cursor = s.cursor
  /\ a.kind = "SelectAll" => r.result = "CursorUpdated"
  /\ a.kind = "CopySelectedText" =>
       /\ r.result = "InsertToClipboard"
       /\ r.clipboard = TextBetweenEndpoints(s)

\* C3: while actions are enabled and the state is selectable but not
\* editable, Paste, Cut, DeleteBackward, the four cursor moves and
\* InsertChar return None and leave text and caret as they were, SelectAll
\* returns CursorUpdated and CopySelectedText returns InsertToClipboard
\* with the selected text
C3_SelectableNotEditable ==
  (~panicked /\ are_actions_enabled /\ is_selectable /\ ~is_editable) =>
    \A a \in Actions : C3_Post(apply_action(Self, a), Self, a)

\* C4: after any sequence of InsertChar, DeleteBackward, Paste and Cut on
\* an enabled, selectable, editable state the caret's byte offset is at
\* most the length of the text and on a character boundary of it (the text
\* taken in its stored form, the longest the caret can be measured against)
C4_CaretInText ==
  ~panicked =>
    /\ cursor.byte_character_start <= Len(text_for_internal_use(Self))
    /\ IsCharBoundary(text_for_internal_use(Self), cursor.byte_character_start)

\* the caret of s is at a byte offset of the text s shows
CaretInText(s) ==
  /\ ~original_text_panics(s)
  /\ s.cursor.byte_character_start <= Len(text_of(s))
  /\ IsCharBoundary(text_of(s), s.cursor.byte_character_start)

\* t[..o] + f + t[o..]
InsertedAt(t, o, f) == Slice(t, 0, o) \o f \o Slice(t, o, Len(t))

\* what C5 says of the state r that InsertChar(f) leaves from s
C5_Post(r, s, f) ==
  /\ ~r.panicked
  /\ r.result = "TextChanged"
  /\ ~original_text_panics(r)
  /\ text_of(r) = InsertedAt(text_of(s), s.cursor.byte_character_start, f)
  /\ r.cursor.byte_character_start = s.cursor.byte_character_start + Len(f)

\* C5: with no active selection and the caret at byte offset o of the text
\* T, InsertChar(f) returns TextChanged, makes the text T[..o] + f + T[o..]
\* and leaves the caret at o + len(f), for every fragment f, a line break
\* at the end of the text included
C5_InsertChar ==
  (~panicked /\ ~is_text_selected(Self) /\ CaretInText(Self)) =>
    \A f \in Fragments :
      C5_Post(apply_action(Self, Action("InsertChar", f)), Self, f)

\* the start of the scalar of t that ends at byte offset o > 0
PrevStart(t, o) ==
  CHOOSE p \in CharStarts(t) : p < o /\ \A q \in CharStarts(t) : q < o => q <= p

\* what C6 says of the state r that DeleteBackward leaves from s
C6_Post(r, s) ==
  /\ ~r.panicked
  /\ ~original_text_panics(r)
  /\ IF s.cursor.byte_character_start > 0
     THEN /\ r.result = "TextChanged"
          /\ text_of(r) =
               Slice(text_of(s), 0,
                     PrevStart(text_of(s), s.cursor.byte_character_start))
                 \o Slice(text_of(s), s.cursor.byte_character_start,
                          Len(text_of(s)))
          /\ r.cursor.byte_character_start =
               PrevStart(text_of(s), s.cursor.byte_character_start)
     ELSE /\ text_of(r) = text_of(s)
          /\ r.cursor = s.cursor

\* C6: with no active selection and the caret at byte offset o of T,
\* DeleteBackward with o > 0 removes exactly the character that ends at o,
\* moves the caret to that character's start and returns TextChanged; with
\* o = 0 it leaves text and caret as they were and does not panic
C6_DeleteBackward ==
  (~panicked /\ ~is_text_selected(Self) /\ CaretInText(Self)) =>
    C6_Post(apply_action(Self, Action("DeleteBackward", << >>)), Self)

\* what C9 says of the state r that SelectAll leaves from s
C9_Post(r, s) ==
  /\ ~r.panicked
  /\ r.result = "CursorUpdated"
  /\ IsSome(r.selection_origin)
  /\ Unwrap(r.selection_origin).byte_character_start = 0
  /\ IF text_of(s) = << >>
     THEN r.selection_end = None /\ ~is_text_selected(r)
     ELSE /\ IsSome(r.selection_end)
          /\ Unwrap(r.selection_end).byte_character_start = Len(text_of(s))
  /\ r.text = s.text
  /\ r.cursor = s.cursor

\* C9: for every text T, those that end in a line break included, SelectAll
\* returns CursorUpdated without panicking, sets the selection origin to
\* byte 0 and the selection end to byte len(T), leaves the end unset when T
\* is empty, and leaves text and caret as they were
C9_SelectAll ==
  (~panicked /\ ~original_text_panics(Self)) =>
    C9_Post(apply_action(Self, Action("SelectAll", << >>)), Self)

\* what C10 says of the state r that Paste(p) leaves from s
C10_Post(r, s, p) ==
  /\ ~r.panicked
  /\ r.result = "TextChanged"
  /\ ~original_text_panics(r)
  /\ text_of(r) = InsertedAt(text_of(s), s.cursor.byte_character_start, p)
  /\ p # << >> => r.selection_end = None
  /\ r.selection_origin = s.selection_origin

\* C10: with the caret at byte offset o of T, Paste(P) returns TextChanged
\* and makes the text T[..o] + P + T[o..]; it unsets the selection end
\* (asked here of a non-empty P only, the source leaving the selection alone
\* when there is nothing to paste), keeps the selection origin and deletes
\* no selected text
C10_Paste ==
  (~panicked /\ CaretInText(Self)) =>
    \A p \in Pastes : C10_Post(apply_action(Self, Action("Paste", p)), Self, p)

\* both selection endpoints of s are set, at byte offsets a < b of the text
\* s shows
SelectedRange(s, a, b) ==
  /\ IsSome(s.selection_origin) /\ IsSome(s.selection_end)
  /\ ~original_text_panics(s)
  /\ a = Min(Unwrap(s.selection_origin).byte_character_start,
             Unwrap(s.selection_end).byte_character_start)
  /\ b = Max(Unwrap(s.selection_origin).byte_character_start,
             Unwrap(s.selection_end).byte_character_start)
  /\ a < b /\ b <= Len(text_of(s))
  /\ IsCharBoundary(text_of(s), a) /\ IsCharBoundary(text_of(s), b)

\* what C7 says of the state r that Cut leaves from s with bytes a..b selected
C7_PostSelected(r, s, a, b) ==
  /\ ~r.panicked
  /\ r.result = "InsertToClipboard"
  /\ r.clipboard = Slice(text_of(s), a, b)
  /\ ~original_text_panics(r)
  /\ text_of(r) = Slice(text_of(s), 0, a) \o Slice(text_of(s), b, Len(text_of(s)))
  /\ r.cursor.byte_character_start = a
  /\ r.selection_origin = None /\ r.selection_end = None

\* what C7 says of the state r that Cut leaves from s with no selection
C7_PostNone(r, s) ==
  /\ ~r.panicked
  /\ r.result = "InsertToClipboard"
  /\ r.clipboard = << >>
  /\ r.text = s.text
  /\ r.cursor = s.cursor

\* C7: Cut on a selection whose endpoints are the byte offsets a < b,
\* whichever of origin and end is the larger, returns
\* InsertToClipboard(T[a..b]) and leaves the text T[..a] + T[b..], the caret
\* at a and no selection; Cut with no selection (an endpoint unset) returns
\* InsertToClipboard("") and leaves text and caret as they were
C7_Cut ==
  ~panicked =>
    /\ \A a, b \in 0 .. Len(text) :
         SelectedRange(Self, a, b) =>
           C7_PostSelected(apply_action(Self, Action("Cut", << >>)), Self, a, b)
    /\ (selection_origin = None \/ selection_end = None) =>
         C7_PostNone(apply_action(Self, Action("Cut", << >>)), Self)

\* what C8 says of the state r that CopySelectedText leaves from s
C8_Post(r, s) ==
  /\ ~r.panicked
  /\ r.result = "InsertToClipboard"
  /\ r.clipboard = TextBetweenEndpoints(s)
  /\ NoStateChange(r, s)

\* C8: CopySelectedText never mutates: wherever it is accepted (actions
\* enabled, selectable) it returns InsertToClipboard(s), s the text between
\* the selection endpoints in byte order or empty when an endpoint is
\* unset, and text, caret, selection endpoints, visual lines, scroll and
\* dirty flag stay as they were
C8_Copy ==
  (~panicked /\ are_actions_enabled /\ is_selectable) =>
    C8_Post(apply_action(Self, Action("CopySelectedText", << >>)), Self)

\* what C11 says of the state r that DeleteBackward leaves from s with
\* bytes a..b selected
C11_PostDelete(r, s, a, b) ==
  /\ ~r.panicked
  /\ r.result = "TextChanged"
  /\ ~original_text_panics(r)
  /\ text_of(r) = Slice(text_of(s), 0, a) \o Slice(text_of(s), b, Len(text_of(s)))
  /\ r.cursor.byte_character_start = a
  /\ ~is_text_selected(r)

\* what C11 says of the state r that InsertChar(f) leaves from s with bytes
\* a..b selected
C11_PostInsert(r, s, a, b, f) ==
  /\ ~r.panicked
  /\ r.result = "TextChanged"
  /\ ~original_text_panics(r)
  /\ text_of(r) =
       Slice(text_of(s), 0, a) \o f \o Slice(text_of(s), b, Len(text_of(s)))
  /\ ~is_text_selected(r)

\* C11: with a selection of non-zero width over the bytes a..b of T active,
\* DeleteBackward removes exactly T[a..b] and puts the caret at a, and
\* InsertChar(f) leaves T[..a] + f + T[b..]; both return TextChanged and
\* leave no text selected
C11_ReplaceSelection ==
  ~panicked =>
    \A a, b \in 0 .. Len(text) :
      SelectedRange(Self, a, b) =>
        /\ C11_PostDelete(apply_action(Self, Action("DeleteBackward", << >>)),
                          Self, a, b)
        /\ \A f \in Fragments :
             C11_PostInsert(apply_action(Self, Action("InsertChar", f)),
                            Self, a, b, f)

\* the larger and the smaller byte offset of the selection endpoints of s
RightEdge(s) ==
  Max(Unwrap(s.selection_origin).byte_character_start,
      Unwrap(s.selection_end).byte_character_start)

LeftEdge(s) ==
  Min(Unwrap(s.selection_origin).byte_character_start,
      Unwrap(s.selection_end).byte_character_start)

\* what C12 says of the state r a cursor move leaves: the caret at byte
\* offset edge and no selection
C12_Post(r, edge) ==
  /\ ~r.panicked
  /\ r.cursor.byte_character_start = edge
  /\ r.selection_origin = None
  /\ r.selection_end = None

\* C12: when text is selected, MoveCursorRight puts the caret at the
\* selection endpoint with the larger byte offset and MoveCursorLeft at the
\* one with the smaller byte offset, and both unset origin and end
C12_CollapseSelection ==
  (~panicked /\ is_text_selected(Self)) =>
    /\ C12_Post(apply_action(Self, Action("MoveCursorRight", << >>)),
                RightEdge(Self))
    /\ C12_Post(apply_action(Self, Action("MoveCursorLeft", << >>)),
                LeftEdge(Self))

\* what C13 says of the state r a horizontal cursor move leaves from s
C13_Post(r, s) ==
  /\ ~r.panicked
  /\ r.result = IF r.cursor # s.cursor THEN "CursorUpdated" ELSE "None"

\* C13: MoveCursorRight and MoveCursorLeft return CursorUpdated exactly when
\* the caret changed, and None when it did not move (at the end of the text,
\* at offset 0, no selection active)
C13_MoveResult ==
  (~panicked /\ ~is_text_selected(Self)) =>
    /\ C13_Post(apply_action(Self, Action("MoveCursorRight", << >>)), Self)
    /\ C13_Post(apply_action(Self, Action("MoveCursorLeft", << >>)), Self)

\* C14: immediately after end_frame the cached identifiers are those cached
\* immediately before it that were marked since the most recent start_frame
\* (by buffer, retain_buffer or insert_buffer); every other entry is evicted,
\* and buffer_no_retain / buffer_no_retain_mut mark nothing
C14_EndFrameEvicts ==
  cache_last = "end_frame" => DOMAIN buffer_cache = cached_before \cap marked

C14_Witness ==
  /\ cache_last = "end_frame"
  /\ DOMAIN buffer_cache # {}
  /\ cached_before \ DOMAIN buffer_cache # {}

\* the byte offset o is past the end of t or inside a scalar of t
BadOffset(o, t) == o > Len(t) \/ ~IsCharBoundary(t, o)

\* the engine cursor c names no line of t or a column past its line's end
OutOfRange(c, t) ==
  \/ c.line >= Len(BufferLines(t))
  \/ c.index > Len(BufferLines(t)[c.line + 1])

\* what C15 says of a conversion to the cursor made, which returned ok, from
\* the cursor bc: nothing made, false returned, bc as it was
C15_Closed(made, ok, updated, bc) ==
  /\ made = None
  /\ ~ok
  /\ updated = bc

\* C15: no ByteCursor conversion panics and each fails closed: for an offset
\* past the end of the text or inside a character from_byte_offset returns
\* None and update_byte_offset returns false and leaves the cursor as it
\* was, from_cursor and update_cursor do the same for an engine cursor whose
\* line or column is out of range, and the previous/next character queries
\* return without panicking
C15_FailClosed ==
  ~cursor_panicked =>
    /\ \A o \in Offsets :
         BadOffset(o, string) =>
           C15_Closed(from_byte_offset(o, string),
                      update_byte_offset_ok(this, o, string),
                      update_byte_offset(this, o, string), this)
    /\ \A c \in Cursors :
         OutOfRange(c, string) =>
           C15_Closed(from_cursor(c, string),
                      update_cursor_ok(this, c, string),
                      update_cursor(this, c, string), this)
    /\ ~prev_char_byte_offset_panics(this, string)
    /\ ~next_char_byte_offset_panics(this, string)

\* the number of scalars of t[..o]
ScalarsBefore(t, o) == CharCount(Slice(t, 0, o))

\* what C16 says of the cursor made for the offset o of t
C16_Post(made, t, o) ==
  /\ IsSome(made)
  /\ char_index(Unwrap(made), t) = Some(ScalarsBefore(t, o))

\* C16: for every text T and every byte offset o in 0..=len(T) on a
\* character boundary of T, offsets at a line break and o = len(T) included,
\* from_byte_offset(o, T) succeeds and its char_index(T) is the number of
\* scalars in T[..o]
C16_CharIndex ==
  \A o \in 0 .. Len(string) :
    IsCharBoundary(string, o) => C16_Post(from_byte_offset(o, string), string, o)

\* the engine cursor c is valid for t: its line is a line of t and its index
\* is at most that line's length
ValidCursor(c, t) ==
  /\ c.line < Len(lines(t))
  /\ c.index <= Len(lines(t)[c.line + 1])

\* what C17 says of the cursor back that the offset of c converts to
C17_Back(back, c) ==
  /\ IsSome(back)
  /\ Unwrap(back).line = c.line
  /\ Unwrap(back).index = c.index

\* what C17 says of the byte offset c converts to in t
C17_Post(offset, c, t) ==
  /\ IsSome(offset)
  /\ C17_Back(char_byte_offset_to_cursor(t, Unwrap(offset)), c)

\* C17: for every text T and every engine cursor (line, index) valid for T,
\* the end of a non-final line included, byte_offset_cursor_to_byte_offset
\* followed by char_byte_offset_to_cursor gives the line and index back
C17_RoundTrip ==
  \A c \in Cursors :
    ValidCursor(c, string) =>
      C17_Post(byte_offset_cursor_to_byte_offset(string, c), c, string)

\* t without the line feed that ends it, if one does
Unterminated(t) ==
  IF t # << >> /\ t[Len(t)] = "n" THEN SubSeq(t, 1, Len(t) - 1) ELSE t

\* the line feeds of t, as 1-based positions
Feeds(t) == { i \in 1 .. Len(t) : t[i] = "n" }

\* the last line of t: its number is the number of line feeds before it, its
\* length is counted from the last of them
LastLineNumber(t) == Cardinality(Feeds(Unterminated(t)))

LastLineLength(t) ==
  LET body == Unterminated(t)
  IN Len(body) - (IF Feeds(body) = {} THEN 0
                  ELSE CHOOSE i \in Feeds(body) : \A j \in Feeds(body) : j <= i)

\* what C18 says of the cursor made for the offset len(t)
C18_Post(made, t) ==
  /\ IsSome(made)
  /\ Unwrap(made) = Cursor(LastLineNumber(t), LastLineLength(t), Before)
  /\ Unwrap(made).line < Len(BufferLines(t))
  /\ Unwrap(made).index <= Len(BufferLines(t)[Unwrap(made).line + 1])

Constructible(t) ==
  {string_start}
    \cup (IF before_last_character_panics(t) THEN {} ELSE {after_last_character(t)})
    \cup { Unwrap(from_byte_offset(o, t)) :
             o \in { x \in Offsets : IsSome(from_byte_offset(x, t)) } }
    \cup { Unwrap(from_cursor(c, t)) :
             c \in { x \in Cursors : IsSome(from_cursor(x, t)) } }

\* what C19 says of two ByteCursors of one text
C19_Post(a, b) ==
  /\ ByteCursorLess(a, b) <=> a.byte_character_start < b.byte_character_start
  /\ a = b <=> a.byte_character_start = b.byte_character_start

\* C19: any two ByteCursors a and b that the constructors string_start,
\* after_last_character, from_byte_offset and from_cursor give for one text
\* compare as their byte offsets do: a < b iff a's byte offset is less than
\* b's, a = b iff the byte offsets are equal
C19_OrderedByOffset ==
  \A a, b \in Constructible(string) : C19_Post(a, b)

\* the byte offset of t that the engine cursor c denotes, on the lines the
\* shaped buffer has for t
CursorOffset(t, c) ==
  IF c.line < Len(BufferLines(t)) /\ c.index <= Len(BufferLines(t)[c.line + 1])
  THEN Some(cumulative(BufferLines(t), c.line + 1) + c.index)
  ELSE None

\* C20: in every reachable TextState the two fields of the caret denote
\* the same position of the current text: the caret's engine cursor (line,
\* index) converted against the text gives the caret's byte offset
C20_CaretFieldsAgree ==
  ~panicked =>
    CursorOffset(text_for_internal_use(Self), cursor.cursor)
      = Some(cursor.byte_character_start)

\* C21: after set_text(t) the caret's byte offset is at most the length of the
\* text that text() returns, whatever the caret and t were, and a caret that
\* was already within the length of t keeps its byte offset.
C21_Post(r, s, t) ==
  /\ ~r.panicked
  /\ ~original_text_panics(r)
  /\ r.cursor.byte_character_start <= Len(text_of(r))
  /\ s.cursor.byte_character_start <= Len(t)
       => r.cursor.byte_character_start = s.cursor.byte_character_start

C21_SetTextClampsCaret ==
  ~panicked => \A t \in InitialTexts : C21_Post(set_text(Self, t), Self, t)

\* C22: after set_text(t), text() is t, and where t is not empty and holds a
\* line break the stored text ends with a line terminator.
EndsWithFeed(t) == t # << >> /\ t[Len(t)] = "n"

HasFeed(t) == \E i \in 1 .. Len(t) : t[i] = "n"

C22_Post(r, t) ==
  /\ ~r.panicked
  /\ ~original_text_panics(r)
  /\ text_of(r) = t
  /\ HasFeed(t) => EndsWithFeed(text_for_internal_use(r))

C22_SetTextStored ==
  ~panicked => \A t \in InitialTexts : C22_Post(set_text(Self, t), t)

\* C23: a TextParams mutator that changes the stored text, size, style or
\* metadata sets the dirty flag, and a call that changes none of them (the
\* same text, a size within the epsilon, the same style or metadata, an empty
\* insertion, an index out of range) leaves the TextParams as it was and does
\* not panic.
Stored(p) == << p.text, p.size, p.style, p.metadata >>

C23_Changes(r, p) == ~r.panicked /\ Stored(r) # Stored(p) => r.changed

C23_NoOp(r, p) == r = p

OutOfRange23(p, start, end) == ~(start < end /\ end <= Len(p.text))

C23_Post(p) ==
  /\ \A t \in InitialTexts :
       /\ C23_Changes(params_set_text(p, t), p)
       /\ (~original_text_panics(p) /\ original_text(p) = t)
            => C23_NoOp(params_set_text(p, t), p)
  /\ \A size \in Sizes :
       /\ C23_Changes(set_size(p, size), p)
       /\ approx_eq(p.size, size, SIZE_EPSILON) => C23_NoOp(set_size(p, size), p)
  /\ \A style \in Styles :
       /\ C23_Changes(set_style(p, style), p)
       /\ p.style = style => C23_NoOp(set_style(p, style), p)
  /\ \A metadata \in Metadata :
       /\ C23_Changes(set_metadata(p, metadata), p)
       /\ p.metadata = metadata => C23_NoOp(set_metadata(p, metadata), p)
  /\ \A i \in Indices :
       /\ \A str \in Insertions :
            /\ C23_Changes(insert_str(p, i, str), p)
            /\ (str = << >> \/ i > Len(p.text)) => C23_NoOp(insert_str(p, i, str), p)
       /\ \A c \in Scalars :
            /\ C23_Changes(insert_char(p, i, c), p)
            /\ i > Len(p.text) => C23_NoOp(insert_char(p, i, c), p)
       /\ C23_Changes(remove_char(p, i), p)
       /\ i >= Len(p.text) => C23_NoOp(remove_char(p, i), p)
       /\ \A end \in Indices :
            /\ C23_Changes(remove_range(p, i, end), p)
            /\ OutOfRange23(p, i, end) => C23_NoOp(remove_range(p, i, end), p)

C23_DirtyFlag == ~params.panicked => C23_Post(params)

\* C24: recalculate reshapes the buffer and records a new inner size exactly
\* when the TextParams are dirty on entry, the flag is false when it returns,
\* and no operation clears the flag without reshaping.
Shaped(r) ==
  /\ r.buffer_lines = BufferLines(text_for_internal_use(r))
  /\ r.inner_dimensions = MeasuredSize(BufferLines(text_for_internal_use(r)))

C24_Post(r, s) ==
  /\ ~r.panicked
  /\ ~r.changed
  /\ IF s.changed THEN Shaped(r)
     ELSE r.buffer_lines = s.buffer_lines /\ r.inner_dimensions = s.inner_dimensions

C24_Recalculate ==
  ~panicked => C24_Post(recalculate_with_update_reason(Self, "Unknown"), Self)

C24_Cleared ==
  changed /\ ~changed' /\ ~panicked' =>
    /\ buffer_lines' = BufferLines(text')
    /\ inner_dimensions' = MeasuredSize(BufferLines(text'))

C24_ReshapeIffDirty == [](C24_Recalculate) /\ [][C24_Cleared]_vars

C24_Witness ==
  /\ last = "recalculate"
  /\ ~changed
  /\ Len(buffer_lines) > 1
  /\ inner_dimensions.x > 0

\* C25: recalculate twice in a row gives the same caret position, the same
\* scroll and the same selection lines the second time as the first, under
\* every vertical alignment.
Geometry(s) == << s.relative_caret_position, s.scroll, s.selection_lines >>

C25_Post(once, twice) == ~twice.panicked /\ Geometry(twice) = Geometry(once)

C25_Twice(once) == C25_Post(once, recalculate_with_update_reason(once, "Unknown"))

C25_Idempotent ==
  ~panicked => C25_Twice(recalculate_with_update_reason(Self, "Unknown"))

\* C29: set_absolute_scroll changes the vertical scroll, line and offset, only
\* under the vertical alignment None; under Start, Center and End the vertical
\* scroll absolute_scroll reports is the same after the call as before it.
C29_Post(r, s) ==
  /\ ~r.panicked
  /\ s.vertical_alignment # "None" =>
       /\ r.scroll.line = s.scroll.line
       /\ r.scroll.vertical = s.scroll.vertical
       /\ absolute_scroll(r).y = absolute_scroll(s).y

C29_VerticalScrollGated ==
  ~panicked => \A point \in ScrollPoints : C29_Post(set_absolute_scroll(Self, point), Self)

C29_Witness ==
  /\ last = "set_absolute_scroll"
  /\ vertical_alignment = "End"
  /\ Len(buffer_lines) > 1
  /\ absolute_scroll(Self).x = GlyphW
  /\ absolute_scroll(Self).y # LineH + 1

\* C30: set_absolute_scroll changes the horizontal scroll only under the
\* horizontal alignment None; under Left, Center and Right absolute_scroll().x
\* is still 0 after a call with an x that is not 0.
C30_Post(r, s) ==
  /\ ~r.panicked
  /\ s.horizontal_alignment \in {"Left", "Center", "Right"} =>
       absolute_scroll(r).x = absolute_scroll(s).x

C30_HorizontalScrollGated ==
  ~panicked => \A point \in ScrollPoints : C30_Post(set_absolute_scroll(Self, point), Self)

\* the caret's x in the buffer, as the scroll adjustment of a call sees it
CaretX(s) == Unwrap(s.relative_caret_position).x + s.scroll.horizontal

\* the caret's x before the call: relative_caret_position.map_or(0.0, ..)
OldCaretX(s) ==
  (IF IsSome(s.relative_caret_position) THEN Unwrap(s.relative_caret_position).x ELSE 0)
    + s.scroll.horizontal

\* the actions that recalculate with MoveCaret, and with a text change
CaretKinds == {"MoveCursorRight", "MoveCursorLeft", "MoveCursorUp", "MoveCursorDown"}

TextKinds == {"InsertChar", "Paste", "DeleteBackward", "Cut"}

\* the call from s that gave r went through the scroll adjustment
Adjusted(r, s, a) ==
  /\ ~r.panicked
  /\ a.kind \in CaretKinds \cup TextKinds
  /\ IsSome(r.relative_caret_position)

InsideWindow(r, s) ==
  CaretX(r) >= s.scroll.horizontal /\ CaretX(r) <= s.scroll.horizontal + AreaW

\* C26: when the new caret x lies inside the window [old scroll, old scroll +
\* visible width], the horizontal scroll stays what it was unless the content
\* is wider than the visible width, the caret moved left and the reason is a
\* text change; a plain caret motion inside the window never changes it.
C26_Post(r, s, a) ==
  Adjusted(r, s, a) /\ InsideWindow(r, s)
    /\ ~(r.inner_dimensions.x > AreaW /\ CaretX(r) < OldCaretX(s) /\ a.kind \in TextKinds)
    => r.scroll.horizontal = s.scroll.horizontal

C26_AmendedPost(r, s, a) ==
  Adjusted(r, s, a) /\ InsideWindow(r, s)
    /\ ~(CaretX(r) < OldCaretX(s) /\ a.kind \in TextKinds)
    => r.scroll.horizontal = s.scroll.horizontal

C27_Post(r, s, a) ==
  Adjusted(r, s, a) =>
    /\ CaretX(r) < s.scroll.horizontal => r.scroll.horizontal = Max(CaretX(r), 0)
    /\ r.scroll.horizontal >= 0

C27_ScrollNotNegative ==
  ~panicked => \A a \in Actions : C27_Post(apply_action(Self, a), Self, a)

\* C28: on an unwrapped single-line text wider than the visible width with the
\* caret at its end, a DeleteBackward after which the content still overflows
\* leaves the caret's x relative to the viewport as it was: the scroll goes
\* down by the width of the deleted character.
OverflowingAtEnd(s) ==
  /\ ~HasFeed(text_for_internal_use(s))
  /\ ~s.changed
  /\ s.inner_dimensions.x > AreaW
  /\ s.cursor.byte_character_start = Len(text_for_internal_use(s))
  /\ s.cursor.cursor.line = 0
  /\ s.cursor.cursor.index = Len(text_for_internal_use(s))
  /\ ~is_text_selected(s)
  /\ IsSome(s.relative_caret_position)
  /\ s.is_editable /\ s.is_selectable /\ s.are_actions_enabled

C28_Post(r, s) ==
  r.panicked \/ r.inner_dimensions.x > AreaW =>
    /\ ~r.panicked
    /\ IsSome(r.relative_caret_position)
    /\ Unwrap(r.relative_caret_position).x = Unwrap(s.relative_caret_position).x
    /\ r.scroll.horizontal
         = s.scroll.horizontal - (s.inner_dimensions.x - r.inner_dimensions.x)

C31_Post(r, s) ==
  /\ ~r.panicked
  /\ r.cursor = s.cursor
  /\ r.selection_origin = s.selection_origin
  /\ r.selection_end = s.selection_end
  /\ r.selection_lines = s.selection_lines
  /\ r.text = s.text
  /\ r.scroll = s.scroll

C31_PressWithoutHit ==
  ~panicked => C31_Post(handle_press(Self, None), Self)

\* C32: a handle_drag with is_dragging on a selectable state moves the caret
\* to the hit cursor only when the debounce interval has elapsed and the
\* pointer is outside the visible area; with the pointer inside the area the
\* caret stays where it was.
OutsideArea(x) == x < 0 \/ x > AreaW

C32_Post(r, s, hit, elapsed, x) ==
  /\ ~r.panicked
  /\ ~(elapsed /\ OutsideArea(x)) => r.cursor = s.cursor
  /\ elapsed /\ OutsideArea(x)
       => r.cursor = update_cursor(s.cursor, Unwrap(hit), text_for_internal_use(s))

C32_DragMovesCaretOutside ==
  ~panicked /\ is_selectable /\ ~changed /\ IsSome(selection_origin) =>
    \A hit \in Hits \ { None }, elapsed \in BOOLEAN, x \in DragXs :
      C32_Post(handle_drag(Self, TRUE, hit, elapsed, x), Self, hit, elapsed, x)

\* the ids a sequence holds
Range(q) == { q[i] : i \in 1 .. Len(q) }

\* C33: end_frame removes exactly the text states whose id was not marked
\* accessed since the last start_frame, appends each removed id exactly once
\* to removed_ids after what the vector already held, and leaves every marked
\* state in place with the content it had.
C33_EndFrameRemovesUnmarked ==
  manager_last = "end_frame" =>
    LET removed == DOMAIN states_before \ manager_marked
        appended == SubSeq(removed_ids, Len(removed_before) + 1, Len(removed_ids))
    IN /\ DOMAIN text_states = DOMAIN states_before \cap manager_marked
       /\ \A id \in DOMAIN text_states : text_states[id] = states_before[id]
       /\ Len(removed_ids) >= Len(removed_before)
       /\ SubSeq(removed_ids, 1, Len(removed_before)) = removed_before
       /\ Range(appended) = removed
       /\ Len(appended) = Cardinality(removed)

C33_Witness ==
  /\ manager_last = "end_frame"
  /\ DOMAIN text_states # {}
  /\ DOMAIN states_before \ DOMAIN text_states # {}
  /\ removed_before # << >>

\* C35: a text state that was looked up in text_states and used between
\* start_frame and end_frame is still in text_states after that end_frame.
C35_UsedStateSurvives ==
  manager_last = "end_frame" /\ manager_started =>
    manager_used \cap DOMAIN states_before \subseteq DOMAIN text_states

\* C36: a buffer that is cached and is reshaped during a frame through
\* shape_buffer_if_needed with reshape = true is still cached after that
\* frame's end_frame, even if nothing else reads it in the frame.
C36_Post(c, id, b) ==
  id \in DOMAIN end_frame(shape_buffer_if_needed(start_frame(c), id, TRUE, b)).buffer_cache

C36_ReshapedBufferSurvives ==
  \A id \in DOMAIN buffer_cache, b \in Buffers : C36_Post(Cache, id, b)

\* C34: byte_offset_cursor_to_byte_offset honours the affinity: a cursor at
\* the index where a character starts converts to that index with Before and
\* to the byte offset of the next character boundary with After.
C34_Post(t, c) ==
  LET L == lines(t)
  IN c.line < Len(L) /\ c.index \in CharStarts(L[c.line + 1]) =>
       byte_offset_cursor_to_byte_offset(t, c)
         = Some(cumulative(L, c.line + 1) + c.index
                  + (IF c.affinity = After THEN CharLenAt(L[c.line + 1], c.index)
                     ELSE 0))

C34_AffinityHonoured == \A c \in Cursors : C34_Post(string, c)

\* C37: in every state reached through set_text, handle_press, handle_drag
\* and apply_action each selection endpoint that is set has a byte offset
\* within text() on a character boundary, the endpoint that compares smaller
\* has the smaller byte offset, and selected_text, CopySelectedText and Cut
\* do not panic.
EndpointInText(e, t) ==
  IsSome(e) =>
    /\ Unwrap(e).byte_character_start <= Len(t)
    /\ IsCharBoundary(t, Unwrap(e).byte_character_start)

EndpointsOrdered(s) ==
  IsSome(s.selection_origin) /\ IsSome(s.selection_end) =>
    LET o == Unwrap(s.selection_origin)
        e == Unwrap(s.selection_end)
    IN /\ ByteCursorLess(o, e) => o.byte_character_start <= e.byte_character_start
       /\ ByteCursorLess(e, o) => e.byte_character_start <= o.byte_character_start

C37_SelectionInText ==
  ~panicked =>
    /\ ~original_text_panics(Self)
    /\ EndpointInText(selection_origin, original_text(Self))
    /\ EndpointInText(selection_end, original_text(Self))
    /\ EndpointsOrdered(Self)
    /\ ~selected_text_panics(Self)
    /\ ~apply_action(Self, Action("CopySelectedText", << >>)).panicked
    /\ ~apply_action(Self, Action("Cut", << >>)).panicked

\* C38: after a recalculation the selection's visual lines describe the
\* current selection: while the origin or the end is unset there are none,
\* after a plain recalculate and after a SelectAll alike.
C38_Post(r) ==
  ~r.panicked /\ (~IsSome(r.selection_origin) \/ ~IsSome(r.selection_end))
    => r.selection_lines = << >>

C38_LinesFollowSelection ==
  ~panicked /\ is_selectable =>
    /\ C38_Post(recalculate_with_update_reason(Self, "Unknown"))
    /\ C38_Post(apply_action(Self, Action("SelectAll", << >>)))

\* C39: Paste leaves the caret where it was: the caret's byte offset and
\* engine cursor after Paste(P) are those before it, so that pasting P1 and
\* then P2 at the same caret stores P2 followed by P1 there.
C39_Post(r, s) ==
  /\ ~r.panicked
  /\ r.cursor = s.cursor

C39_PostTwice(r, s, p1, p2) ==
  /\ ~r.panicked
  /\ r.cursor = s.cursor
  /\ text_for_internal_use(r)
       = InsertedAt(text_for_internal_use(s), s.cursor.byte_character_start, p2 \o p1)

C39_PasteKeepsCaret ==
  (~panicked /\ CaretInText(Self)) =>
    \A p1, p2 \in Pastes :
      /\ C39_Post(apply_action(Self, Action("Paste", p1)), Self)
      /\ C39_PostTwice(apply_action(apply_action(Self, Action("Paste", p1)),
                                    Action("Paste", p2)), Self, p1, p2)

\* a caret inside the text at which two different texts are pasted
C39_Witness ==
  /\ ~panicked
  /\ CaretInText(Self)
  /\ cursor.byte_character_start > 0
  /\ cursor.byte_character_start < Len(text)
  /\ \E p1, p2 \in Pastes \ { << >> } :
       LET r == apply_action(apply_action(Self, Action("Paste", p1)),
                             Action("Paste", p2))
       IN /\ p1 # p2
          /\ ~r.panicked
          /\ r.result = "TextChanged"
          /\ Len(r.text) = Len(text) + Len(p1) + Len(p2)

\* C40: after a recalculation with a cursor-affecting reason in which the
\* caret position is available the caret is horizontally visible: its x lies
\* in [scroll, scroll + visible width] of the new scroll, whatever the scroll
\* and the caret position were before; when the caret was beyond the right
\* edge the new scroll is caret x - visible width + caret width.
C40_Post(r, s, a) ==
  Adjusted(r, s, a) =>
    /\ CaretX(r) >= r.scroll.horizontal
    /\ CaretX(r) <= r.scroll.horizontal + AreaW
    /\ CaretX(r) > s.scroll.horizontal + AreaW
         => r.scroll.horizontal = CaretX(r) - AreaW + CaretWidth

C40_CaretVisible ==
  ~panicked => \A a \in Actions : C40_Post(apply_action(Self, a), Self, a)

====
